---------------------------- MODULE Spec2Model ----------------------------
(***************************************************************************)
(* A model of the schema editor of FireCMS (SchemaEditor, SchemaEditorForm *)
(* and the form state Formik keeps for them), of SubmitListener, of        *)
(* ReferenceDialog and of EntityCollectionTable.                           *)
(*                                                                         *)
(* Representation of the JavaScript values:                                *)
(*   - a string that is edited as text (schema id, schema name) is the     *)
(*     sequence of its characters;                                         *)
(*   - an object used as a mapping (properties) is the sequence of its     *)
(*     entries [key, value] in insertion order, with distinct keys;        *)
(*   - a tree item id is the sequence of the dot-separated segments of    *)
(*     the dotted path: <<"m", "a">> is "m.a".  Property keys hold no dot. *)
(*   - an optional value is the empty sequence when it is undefined.       *)
(***************************************************************************)
EXTENDS Integers, Sequences, FiniteSets, TLC

----------------------------------------------------------------------------
(* Bounds of the model *)

\* longest propertiesOrder the add-property action may produce
MaxOrderLen == 2

\* most properties (nested ones counted) of a draft a property is added to
MaxProperties == 2

\* most saveSchema calls of a session
MaxSaves == 2

\* most submissions a SubmitListener issues
MaxSubmissions == 2

\* most calls of the selection callbacks of a ReferenceDialog
MaxSelectionCalls == 2

\* most cell edits of an EntityCollectionTable
MaxCellEdits == 2

\* most calls of useFirebaseStorageSource
MaxSources == 2

----------------------------------------------------------------------------
(* Values *)

\* the texts of the id and name inputs
Product == <<"P", "r", "o", "d", "u", "c", "t">>

MyShop == <<"M", "y", " ", "S", "h", "o", "p">>

Prod == <<"p", "r", "o", "d">>

\* propertiesOrder === undefined
Undefined == <<"undefined">>

\* destination.index === undefined
NoIndex == -1

\* the id of the synthetic root item
rootId == <<"root">>

\* item.data.property of the root item
NoProperty ==
    [kind |-> "undefined", dataType |-> "", title |-> "",
     properties |-> <<>>, propertiesOrder |-> Undefined]

\* a property builder: typeof property === "function"
Builder ==
    [kind |-> "function", dataType |-> "", title |-> "",
     properties |-> <<>>, propertiesOrder |-> Undefined]

StringProperty(t) ==
    [kind |-> "object", dataType |-> "string", title |-> t,
     properties |-> <<>>, propertiesOrder |-> Undefined]

MapProperty(t, props, order) ==
    [kind |-> "object", dataType |-> "map", title |-> t,
     properties |-> props, propertiesOrder |-> order]

Entry(k, v) == [key |-> k, value |-> v]

----------------------------------------------------------------------------
(* JavaScript objects used as mappings *)

ObjectKeys(m) == [i \in 1..Len(m) |-> m[i].key]

HasKey(m, k) == \E i \in 1..Len(m) : m[i].key = k

GetKey(m, k) == m[CHOOSE i \in 1..Len(m) : m[i].key = k].value

\* { ...m, [k]: v }: an existing key keeps its place
SetKey(m, k, v) ==
    IF HasKey(m, k)
    THEN [i \in 1..Len(m) |-> IF m[i].key = k THEN Entry(k, v) ELSE m[i]]
    ELSE Append(m, Entry(k, v))

SeqToSet(s) == {s[i] : i \in 1..Len(s)}

RemoveAt(s, i) == SubSeq(s, 1, i - 1) \o SubSeq(s, i + 1, Len(s))

\* Array.prototype.splice(i, 0, x), i counted from 0; i beyond the end appends
InsertAt(s, i, x) ==
    IF i >= Len(s) THEN Append(s, x)
    ELSE SubSeq(s, 1, i) \o <<x>> \o SubSeq(s, i + 1, Len(s))

----------------------------------------------------------------------------
(* util/schemas: sortProperties *)

\* The mapping in the order of propertiesOrder (of the keys when there is no
\* order), nested map properties sorted by their own order; a key of the order
\* that is no property is skipped.
RECURSIVE sortProperties(_, _)
sortProperties(properties, propertiesOrder) ==
    LET allPropertiesOrder ==
            IF propertiesOrder = Undefined THEN ObjectKeys(properties)
            ELSE propertiesOrder
        sorted(p) ==
            IF p.kind = "object" /\ p.dataType = "map"
            THEN [p EXCEPT !.properties = sortProperties(p.properties, p.propertiesOrder)]
            ELSE p
        RECURSIVE reduce(_, _)
        reduce(acc, i) ==
            IF i > Len(allPropertiesOrder) THEN acc
            ELSE LET key == allPropertiesOrder[i]
                 IN  reduce(IF HasKey(properties, key)
                            THEN SetKey(acc, key, sorted(GetKey(properties, key)))
                            ELSE acc,
                            i + 1)
    IN  reduce(<<>>, 1)

----------------------------------------------------------------------------
(* SchemaEditor/util: propertiesToTree, treeToProperties *)

IsMap(property) == property.kind = "object" /\ property.dataType = "map"

\* the items of the subtree of one property; parentId is <<>> at the top level
RECURSIVE propertyToTreeItems(_, _, _)
propertyToTreeItems(key, property, parentId) ==
    LET id == parentId \o <<key>>
        nested == IsMap(property) /\ property.properties # <<>>
        children ==
            IF nested
            THEN [i \in 1..Len(property.properties) |-> id \o <<property.properties[i].key>>]
            ELSE <<>>
    IN  {[id |-> id, children |-> children, data |-> [property |-> property]]}
        \cup
        (IF nested
         THEN UNION {propertyToTreeItems(property.properties[i].key,
                                         property.properties[i].value, id)
                     : i \in 1..Len(property.properties)}
         ELSE {})

propertiesToTree(properties) ==
    LET rootItem ==
            [id |-> rootId,
             children |-> [i \in 1..Len(properties) |-> <<properties[i].key>>],
             data |-> [property |-> NoProperty]]
        all == {rootItem} \cup
               UNION {propertyToTreeItems(properties[i].key, properties[i].value, <<>>)
                      : i \in 1..Len(properties)}
    IN  [rootId |-> rootId,
         items  |-> [id \in {it.id : it \in all} |-> CHOOSE it \in all : it.id = id]]

\* the key an item stands for: the last segment of its dotted id
KeyOfId(id) == id[Len(id)]

\* the mapping of a child list; a map item takes its nested properties and
\* their order from its children
RECURSIVE itemsToProperties(_, _, _)
itemsToProperties(tree, children, i) ==
    IF i = 0 THEN <<>>
    ELSE LET item == tree.items[children[i]]
             p    == item.data.property
             q    == IF IsMap(p)
                     THEN [p EXCEPT
                             !.properties = itemsToProperties(tree, item.children, Len(item.children)),
                             !.propertiesOrder = [j \in 1..Len(item.children) |-> KeyOfId(item.children[j])]]
                     ELSE p
         IN  SetKey(itemsToProperties(tree, children, i - 1), KeyOfId(item.id), q)

treeToProperties(tree) ==
    LET rootItem == tree.items[tree.rootId]
    IN  <<itemsToProperties(tree, rootItem.children, Len(rootItem.children)),
          [j \in 1..Len(rootItem.children) |-> KeyOfId(rootItem.children[j])]>>

----------------------------------------------------------------------------
(* Tree: moveItemOnTree; positions count from 0 *)

Position(parentId, index) == [parentId |-> parentId, index |-> index]

moveItemOnTree(tree, from, to) ==
    LET itemRemoved == tree.items[from.parentId].children[from.index + 1]
        removed == [tree EXCEPT !.items[from.parentId].children = RemoveAt(@, from.index + 1)]
    IN  [removed EXCEPT !.items[to.parentId].children =
            IF to.index = NoIndex THEN Append(@, itemRemoved)
            ELSE InsertAt(@, to.index, itemRemoved)]

----------------------------------------------------------------------------
(* SchemaEditor: isValidDrag *)

\* isValidDrag without the check of the dragged property
isValidDragBuilderAllowed(tree, source, destination) ==
    IF destination.index = NoIndex THEN FALSE
    ELSE IF destination.parentId = tree.rootId THEN TRUE
    ELSE LET destinationProperty == tree.items[destination.parentId].data.property
         IN  destinationProperty.kind = "object" /\ destinationProperty.dataType = "map"

\* isValidDrag without the check of the destination's dataType
isValidDragAnyParent(tree, source, destination) ==
    LET draggedPropertyId == tree.items[source.parentId].children[source.index + 1]
        draggedProperty   == tree.items[draggedPropertyId].data.property
    IN  IF draggedProperty.kind = "function" THEN FALSE
        ELSE IF destination.index = NoIndex THEN FALSE
        ELSE IF destination.parentId = tree.rootId THEN TRUE
        ELSE tree.items[destination.parentId].data.property.kind = "object"

\* isValidDrag without the check of the destination's index
isValidDragAnyIndex(tree, source, destination) ==
    LET draggedPropertyId == tree.items[source.parentId].children[source.index + 1]
        draggedProperty   == tree.items[draggedPropertyId].data.property
    IN  IF draggedProperty.kind = "function" THEN FALSE
        ELSE IF destination.parentId = tree.rootId THEN TRUE
        ELSE LET destinationPropertyId == tree.items[destination.parentId].id
                 destinationProperty   == tree.items[destinationPropertyId].data.property
             IN  destinationProperty.kind = "object" /\ destinationProperty.dataType = "map"

isValidDrag(tree, source, destination) ==
    LET draggedPropertyId == tree.items[source.parentId].children[source.index + 1]
        draggedProperty   == tree.items[draggedPropertyId].data.property
    IN  IF draggedProperty.kind = "function" THEN FALSE
        ELSE IF destination.index = NoIndex THEN FALSE
        ELSE IF destination.parentId = tree.rootId THEN TRUE
        ELSE LET destinationPropertyId == tree.items[destination.parentId].id
                 destinationProperty   == tree.items[destinationPropertyId].data.property
             IN  destinationProperty.kind = "object" /\ destinationProperty.dataType = "map"

----------------------------------------------------------------------------
(* util/strings: toSnakeCase *)

ToLowerCase(c) ==
    CASE c = "P" -> "p"
      [] c = "M" -> "m"
      [] c = "S" -> "s"
      [] OTHER   -> c

\* the words of the text (runs of characters other than the space) in lower
\* case, joined by "_"
RECURSIVE snakeCaseFrom(_, _, _)
snakeCaseFrom(str, i, acc) ==
    IF i > Len(str) THEN acc
    ELSE IF str[i] = " " THEN snakeCaseFrom(str, i + 1, acc)
    ELSE IF i > 1 /\ str[i - 1] = " " /\ acc # <<>>
         THEN snakeCaseFrom(str, i + 1, acc \o <<"_", ToLowerCase(str[i])>>)
    ELSE snakeCaseFrom(str, i + 1, Append(acc, ToLowerCase(str[i])))

toSnakeCase(str) == snakeCaseFrom(str, 1, <<>>)

----------------------------------------------------------------------------
(* react-fast-compare: equal, on schema values.  The order of the keys of an *)
(* object plays no part in it.                                               *)

\* the keys in one fixed order
AllKeys == <<"a", "b", "f", "m", "n">>

RECURSIVE Canonical(_)
Canonical(m) ==
    LET present == SelectSeq(AllKeys, LAMBDA k : HasKey(m, k))
    IN  [i \in 1..Len(present) |->
            LET p == GetKey(m, present[i])
            IN  Entry(present[i], [p EXCEPT !.properties = Canonical(p.properties)])]

equal(v, w) ==
    /\ v.id = w.id
    /\ v.name = w.name
    /\ v.propertiesOrder = w.propertiesOrder
    /\ Canonical(v.properties) = Canonical(w.properties)

----------------------------------------------------------------------------
(* util/schemas: prepareSchemaForPersistence *)

\* the structural normalisation before persisting: the properties sorted by
\* propertiesOrder
prepareSchemaForPersistence(schema) ==
    [schema EXCEPT !.properties = sortProperties(schema.properties, schema.propertiesOrder)]

----------------------------------------------------------------------------
(* State *)

VARIABLES
    isNewSchema,            \* SchemaEditor: !schemaId
    values,                 \* Formik: the draft [id, name, properties, propertiesOrder]
    initialValues,          \* Formik: initialValues.current
    touched,                \* Formik: the names of the touched fields
    isSubmitting,           \* Formik: isSubmitting
    selectedPropertyId,     \* SchemaEditorForm state; <<>> is undefined
    pendingMove,            \* SchemaEditorForm state; <<>> or <<source, destination>>
    newPropertyDialogOpen,  \* SchemaEditorForm state
    saveInFlight,           \* <<>> or <<the values onSubmit was called with>>
    savedSchema,            \* <<>> or <<the last schema handed to configurationPersistence.saveSchema>>
    closedWith,             \* <<>> or <<the argument of the last handleClose call>>
    snackbar,               \* the type of the last notification opened, or "none"
    saveCalls,              \* the number of saveSchema calls made
    idEditedByUser          \* history: the user has typed in the id input

\* SchemaEditor: the lookup of the schema
VARIABLES
    schemaId,               \* prop; <<>> is undefined, else <<the id>>
    registryInitialised,    \* schemaRegistry.initialised
    findSchemaThrows,       \* schemaRegistry.findSchema throws for an id it does not know
    schema,                 \* SchemaEditor state; <<>> is undefined
    error                   \* SchemaEditor state; <<>> is undefined

lookupVars == <<schemaId, registryInitialised, findSchemaThrows, schema, error>>

\* SubmitListener and the Formik context it reads.  SchemaEditorForm does not
\* mount it (the element is commented out), so the context is one of its own.
VARIABLES
    formikValues,           \* formik.values
    formikInitialValues,    \* formik.initialValues
    formikIsValid,          \* formik.isValid, as last rendered
    isValidating,           \* Formik: the validation of formik.values has not settled
    lastValues,             \* SubmitListener state
    timers,                 \* the pending setTimeout handlers, each with what its doSubmit closes over
    submitted,              \* history: the values of the formik.submitForm() calls
    previousValues,         \* history: formik.values before the last change
    burst                   \* history: the values changed since a timer last fired

editorVars == <<isNewSchema, values, initialValues, touched, isSubmitting,
                selectedPropertyId, pendingMove, newPropertyDialogOpen,
                saveInFlight, savedSchema, closedWith, snackbar, saveCalls,
                idEditedByUser>>

listenerVars == <<formikValues, formikInitialValues, formikIsValid,
                  isValidating, lastValues, timers, submitted, previousValues,
                  burst>>

\* ReferenceDialog
VARIABLES
    dialogOpen,             \* the dialog is mounted in the side dialog
    multiselect,            \* prop
    callbacks,              \* which of onSingleEntitySelected ("single") and
                            \* onMultipleEntitiesSelected ("multiple") the caller supplied
    selectedEntityIds,      \* prop; <<>> is undefined, else <<the ids>>
    fetches,                \* the state of the fetchEntity call of each id, of the
                            \* effect that ran last
    staleBatch,             \* <<>>, or <<[ids, fetches]>> of an effect that was
                            \* cleaned up while its fetches were outstanding
    dialogReady,            \* selectedEntities !== undefined
    dialogSelectedEntities, \* selectedEntities, once defined
    singleCalls,            \* history: the arguments of onSingleEntitySelected; <<>> is null
    multipleCalls,          \* history: the arguments of onMultipleEntitiesSelected
    onCloseCalls            \* history: the number of onClose calls

referenceVars == <<dialogOpen, multiselect, callbacks, selectedEntityIds,
                   fetches, staleBatch, dialogReady, dialogSelectedEntities, singleCalls,
                   multipleCalls, onCloseCalls>>

\* EntityCollectionTable
VARIABLES
    inlineEditing,          \* collectionConfig.inlineEditing, undefined read as true
    selectionEnabled,       \* collectionConfig.selectionEnabled, undefined read as true
    editableIds,            \* the ids of the entities canEdit passes for
    deletableIds,           \* the ids of the entities canDelete passes for
    creatable,              \* whether canCreate passes
    sideEntity,             \* history: <<>> or <<the argument of the last sideEntityController.open of a row action>>
    tableSelectedEntities,  \* selectedEntities
    saveRequests,           \* history: the arguments of the dataSource.saveEntity calls
    cellEdits,              \* history: the [entity, name, value] of the committed cell edits
    saveStates,             \* per save request: "pending", "saved" or "error"
    cellStates,             \* per cell: "none", or "saved" after setSaved(true), or "error" after setError(e)
    dataSourceValues,       \* per entity id: the values the data source holds
    rowValues,              \* per entity id: the values of the entity the row presents
    deleteEntityClicked,    \* <<>> is undefined, else <<[multiple, entities]>>
    deletedIds,             \* the ids of the entities deleted from the data source
    lastDelete              \* history: <<>> or <<the last delete that completed>>

tableVars == <<inlineEditing, selectionEnabled, editableIds, deletableIds,
               creatable, sideEntity,
               tableSelectedEntities, saveRequests, cellEdits, saveStates,
               cellStates, dataSourceValues, rowValues,
               deleteEntityClicked, deletedIds, lastDelete>>

deleteVars == <<deleteEntityClicked, deletedIds, lastDelete>>

rowActionVars == <<creatable, sideEntity>>

cellVars == <<saveRequests, cellEdits, saveStates, cellStates,
              dataSourceValues, rowValues>>

\* useFirebaseStorageSource
VARIABLES
    urlsCaches,     \* per storage source, in the order of the hook calls: urlsCache, <<>> for a path it holds nothing for
    lookups,        \* per path: the number of getDownloadURL calls of firebase/storage
    promises,       \* per promise of firebase/storage: "none", "pending", "resolved" or "rejected"
    firstReturned,  \* history, per path: <<>> or <<the promise the first call returned>>
    lastReturned    \* history: <<>> or <<[source, path, promise] of the last call>>

storageVars == <<urlsCaches, lookups, promises, firstReturned, lastReturned>>

vars == <<lookupVars, editorVars, listenerVars, referenceVars, tableVars,
          storageVars>>

\* what the handlers of the schema editor form leave alone
outsideEditor == <<lookupVars, listenerVars, referenceVars, tableVars,
                    storageVars>>

\* what SubmitListener leaves alone
outsideListener == <<lookupVars, editorVars, referenceVars, tableVars,
                      storageVars>>

\* what ReferenceDialog leaves alone
outsideReference == <<lookupVars, editorVars, listenerVars, tableVars,
                       storageVars>>

\* what EntityCollectionTable leaves alone
outsideTable == <<lookupVars, editorVars, listenerVars, referenceVars,
                   storageVars>>

\* what a storage source leaves alone
outsideStorage == <<lookupVars, editorVars, listenerVars, referenceVars,
                     tableVars>>

formikVars == <<values, initialValues, touched, isSubmitting>>
dialogVars == <<selectedPropertyId, pendingMove, newPropertyDialogOpen>>
saveVars   == <<saveInFlight, savedSchema, closedWith, snackbar, saveCalls,
                idEditedByUser>>

Schema(id, name, properties, propertiesOrder) ==
    [id |-> id, name |-> name, properties |-> properties,
     propertiesOrder |-> propertiesOrder]

\* Formik initialValues of a new schema (no propertiesOrder)
EmptySchema == Schema(<<>>, <<>>, <<>>, Undefined)

\* A persisted schema as the registry returns it: a builder, a map with one
\* nested property, and a mapping whose key order is not the order of
\* propertiesOrder.
ProductSchema ==
    Schema(toSnakeCase(Product), Product,
           <<Entry("f", Builder),
             Entry("m", MapProperty("t", <<Entry("a", StringProperty("t"))>>, <<"a">>))>>,
           <<"m", "f">>)

\* A persisted schema with a map in a map: the property b has the dotted path
\* m.a.b.
DeepSchema ==
    Schema(toSnakeCase(Product), Product,
           <<Entry("m", MapProperty("t",
                 <<Entry("a", MapProperty("t",
                       <<Entry("b", StringProperty("t"))>>, <<"b">>)),
                   Entry("c", StringProperty("t"))>>,
                 <<"a", "c">>)),
             Entry("f", StringProperty("t"))>>,
           <<"m", "f">>)

\* schemaRegistry.findSchema: the schema of the id, <<>> when there is none
findSchema(id) == IF id = ProductSchema.id THEN <<ProductSchema>> ELSE <<>>

\* the argument of handleClose(undefined)
NoSchema == [undefined |-> TRUE]

----------------------------------------------------------------------------
(* Derived values of a render of SchemaEditorForm *)

\* SchemaEditor: what it renders
SchemaEditorView ==
    IF error # <<>> THEN "error"
    ELSE IF ~registryInitialised \/ ~(isNewSchema \/ schema # <<>>) THEN "loading"
    ELSE "form"

\* Formik and SchemaEditorForm are rendered
EditorFormShown == SchemaEditorView = "form"

\* Formik: dirty
dirty == ~equal(initialValues, values)

\* Yup: id and name are required
isValid(v) == v.id # <<>> /\ v.name # <<>>

\* the tree built without sorting the properties first
TreeOfUnsorted(v) == propertiesToTree(v.properties)

\* the tree with the children of the root taken from propertiesOrder as it
\* is listed
TreeOfListedOrder(v) ==
    LET t == propertiesToTree(sortProperties(v.properties, v.propertiesOrder))
    IN  IF v.propertiesOrder = Undefined THEN t
        ELSE [t EXCEPT !.items[rootId].children =
                 [i \in 1..Len(v.propertiesOrder) |-> <<v.propertiesOrder[i]>>]]

\* const tree = useMemo(...)
TreeOf(v) == propertiesToTree(sortProperties(v.properties, v.propertiesOrder))

tree == TreeOf(values)

\* values.properties[selectedPropertyId]: a key holds no dot, so only the id
\* of a top-level item is a key of the mapping
HasSelectedProperty ==
    /\ Len(selectedPropertyId) = 1
    /\ HasKey(values.properties, selectedPropertyId[1])

selectedProperty == GetKey(values.properties, selectedPropertyId[1])

\* the edit form is rendered: typeof selectedProperty === "object"
EditFormShown ==
    /\ selectedPropertyId # <<>>
    /\ HasSelectedProperty
    /\ selectedProperty.kind = "object"

\* PendingMoveDialog and the new-property PropertyForm are modal dialogs
NoDialogOpen == pendingMove = <<>> /\ ~newPropertyDialogOpen

\* a variant of autoDeriveId that copies the name as it is typed
autoDeriveIdVerbatim(v, t) ==
    IF "id" \notin t /\ isNewSchema /\ v.name # <<>>
    THEN [v EXCEPT !.id = v.name]
    ELSE v

\* the effect on [isNewSchema, touched, values.name]: derive the id from the name
autoDeriveId(v, t) ==
    IF "id" \notin t /\ isNewSchema /\ v.name # <<>>
    THEN [v EXCEPT !.id = toSnakeCase(v.name)]
    ELSE v

----------------------------------------------------------------------------
(* Inputs *)

\* the title the property edit form gives a property
NewTitles == {"u"}

\* what the new-property form reports: a key and a property
NewEntries ==
    {Entry("a", StringProperty("u")), Entry("n", MapProperty("t", <<>>, Undefined))}

IsPrefix(p, q) == Len(p) <= Len(q) /\ SubSeq(q, 1, Len(p)) = p

\* every position of an item of the tree
SourcePositions(t) ==
    UNION {{Position(id, i - 1) : i \in 1..Len(t.items[id].children)}
           : id \in DOMAIN t.items}

\* The destinations the Tree component reports for the item at source: under
\* any item outside the dragged subtree (which is collapsed while it is
\* dragged), at an index of the parent's remaining children, or with no index
\* when the item is dropped onto the parent.
DestinationPositions(t, source) ==
    LET dragged == t.items[source.parentId].children[source.index + 1]
        parents == {id \in DOMAIN t.items : ~IsPrefix(dragged, id)}
        size(id) == Len(t.items[id].children) - (IF id = source.parentId THEN 1 ELSE 0)
    IN  UNION {{Position(id, i) : i \in {NoIndex} \cup 0..size(id)} : id \in parents}

----------------------------------------------------------------------------
(* SchemaEditor: the lookup of the schema *)

\* The registry becomes initialised and the effect on [schema, schemaRegistry]
\* runs.  A findSchema that throws leads to setError(error), with the error of
\* the state, which is undefined.  Formik is mounted with the schema as its
\* initial values once the form is rendered.
SchemaRegistryInitialised ==
    /\ ~registryInitialised
    /\ registryInitialised' = TRUE
    /\ IF schemaId = <<>>
       THEN schema' = <<>> /\ error' = error
       ELSE IF findSchema(schemaId[1]) = <<>> /\ findSchemaThrows
       THEN schema' = schema /\ error' = error
       ELSE schema' = findSchema(schemaId[1]) /\ error' = error
    /\ values' = IF schema' # <<>> THEN schema'[1] ELSE EmptySchema
    /\ initialValues' = values'
    /\ UNCHANGED <<schemaId, findSchemaThrows, isNewSchema, touched,
                   isSubmitting, dialogVars, saveVars, listenerVars,
                   referenceVars, tableVars, storageVars>>

----------------------------------------------------------------------------
(* SchemaEditorForm: the property tree *)

\* doPropertyMove: the draft with the move applied to its tree
doPropertyMove(v, source, destination) ==
    LET newTree == moveItemOnTree(TreeOf(v), source, destination)
        flat    == treeToProperties(newTree)
    IN  [v EXCEPT !.propertiesOrder = flat[2], !.properties = flat[1]]

\* onDragEnd without the return on an invalid drag
onDragEndUnchecked(t, source, destination) ==
    /\ NoDialogOpen
    /\ IF destination = <<>>
       THEN UNCHANGED vars
       ELSE IF source.parentId # destination[1].parentId
       THEN /\ pendingMove' = <<source, destination[1]>>
            /\ UNCHANGED <<outsideEditor, isNewSchema, formikVars, selectedPropertyId,
                           newPropertyDialogOpen, saveVars>>
       ELSE /\ values' = doPropertyMove(values, source, destination[1])
            /\ UNCHANGED <<outsideEditor, isNewSchema, initialValues, touched, isSubmitting,
                           dialogVars, saveVars>>

\* onDragEnd applying every valid move at once
onDragEndUnconfirmed(t, source, destination) ==
    /\ NoDialogOpen
    /\ IF destination = <<>>
       THEN UNCHANGED vars
       ELSE IF ~isValidDrag(t, source, destination[1])
       THEN UNCHANGED vars
       ELSE /\ values' = doPropertyMove(values, source, destination[1])
            /\ UNCHANGED <<outsideEditor, isNewSchema, initialValues, touched, isSubmitting,
                           dialogVars, saveVars>>

\* onDragEnd; destination is <<>> when the item is dropped outside
onDragEnd(t, source, destination) ==
    /\ NoDialogOpen
    /\ IF destination = <<>>
       THEN UNCHANGED vars
       ELSE IF ~isValidDrag(t, source, destination[1])
       THEN UNCHANGED vars
       ELSE IF source.parentId # destination[1].parentId
       THEN /\ pendingMove' = <<source, destination[1]>>
            /\ UNCHANGED <<outsideEditor, isNewSchema, formikVars, selectedPropertyId,
                           newPropertyDialogOpen, saveVars>>
       ELSE /\ values' = doPropertyMove(values, source, destination[1])
            /\ UNCHANGED <<outsideEditor, isNewSchema, initialValues, touched, isSubmitting,
                           dialogVars, saveVars>>

DragEnd ==
    /\ EditorFormShown
    /\ LET t == tree
       IN  \E source \in SourcePositions(t) :
               \E destination \in {<<>>} \cup {<<d>> : d \in DestinationPositions(t, source)} :
                   onDragEnd(t, source, destination)

\* the positions designate an item and a parent of the tree
PositionsInTree(t, source, destination) ==
    /\ source.parentId \in DOMAIN t.items
    /\ source.index + 1 \in 1..Len(t.items[source.parentId].children)
    /\ destination.parentId \in DOMAIN t.items

\* PendingMoveDialog onAccept.  With a position that is not in the tree,
\* moveItemOnTree or treeToProperties reads a member of undefined and throws
\* before the first setFieldValue.
AcceptPendingMove ==
    /\ EditorFormShown
    /\ pendingMove # <<>>
    /\ pendingMove' = <<>>
    /\ values' = IF PositionsInTree(tree, pendingMove[1], pendingMove[2])
                 THEN doPropertyMove(values, pendingMove[1], pendingMove[2])
                 ELSE values
    /\ UNCHANGED <<outsideEditor, isNewSchema, initialValues, touched, isSubmitting,
                   selectedPropertyId, newPropertyDialogOpen, saveVars>>

\* PendingMoveDialog onCancel
CancelPendingMove ==
    /\ EditorFormShown
    /\ pendingMove # <<>>
    /\ pendingMove' = <<>>
    /\ UNCHANGED <<outsideEditor, isNewSchema, formikVars, selectedPropertyId,
                   newPropertyDialogOpen, saveVars>>

\* onPropertyClick
PropertyClick ==
    /\ EditorFormShown
    /\ NoDialogOpen
    /\ \E id \in DOMAIN tree.items \ {rootId} :
          selectedPropertyId' = id
    /\ UNCHANGED <<outsideEditor, isNewSchema, formikVars, pendingMove, newPropertyDialogOpen,
                   saveVars>>

\* the "Add property" button
OpenNewPropertyDialog ==
    /\ EditorFormShown
    /\ NoDialogOpen
    /\ newPropertyDialogOpen' = TRUE
    /\ UNCHANGED <<outsideEditor, isNewSchema, formikVars, selectedPropertyId, pendingMove,
                   saveVars>>

\* the new-property form's onCancel
CancelNewProperty ==
    /\ EditorFormShown
    /\ newPropertyDialogOpen
    /\ newPropertyDialogOpen' = FALSE
    /\ UNCHANGED <<outsideEditor, isNewSchema, formikVars, selectedPropertyId, pendingMove,
                   saveVars>>

\* values.propertiesOrder ?? []
OrderOrEmpty(order) == IF order = Undefined THEN <<>> ELSE order

\* onPropertyCreated without the update of propertiesOrder
withPropertyCreatedUnordered(v, id, property) ==
    [v EXCEPT !.properties = SetKey(v.properties, id, property)]

\* onPropertyCreated with the key put first in propertiesOrder
withPropertyCreatedFirst(v, id, property) ==
    [v EXCEPT !.properties = SetKey(v.properties, id, property),
              !.propertiesOrder = <<id>> \o OrderOrEmpty(v.propertiesOrder)]

\* onPropertyCreated: the draft with the property added
withPropertyCreated(v, id, property) ==
    [v EXCEPT !.properties = SetKey(v.properties, id, property),
              !.propertiesOrder = Append(OrderOrEmpty(v.propertiesOrder), id)]

RECURSIVE PropertyCount(_)
PropertyCount(properties) ==
    IF properties = <<>> THEN 0
    ELSE 1 + PropertyCount(Head(properties).value.properties)
           + PropertyCount(Tail(properties))

PropertyCreated ==
    /\ EditorFormShown
    /\ newPropertyDialogOpen
    /\ Len(OrderOrEmpty(values.propertiesOrder)) < MaxOrderLen
    /\ PropertyCount(values.properties) <= MaxProperties
    /\ \E e \in NewEntries :
          values' = withPropertyCreated(values, e.key, e.value)
    /\ newPropertyDialogOpen' = FALSE
    /\ UNCHANGED <<outsideEditor, isNewSchema, initialValues, touched, isSubmitting,
                   selectedPropertyId, pendingMove, saveVars>>

\* "properties." + selectedPropertyId.replace(".", ".properties."), as the
\* segments Formik splits it into.  String.prototype.replace with a string
\* pattern replaces the first occurrence only.
propertyPath(propertyId) ==
    <<"properties">> \o
        (IF Len(propertyId) = 1 THEN propertyId
         ELSE <<propertyId[1], "properties">> \o Tail(propertyId))

\* Formik setIn: the object with the value written at the path; an object on
\* the way that does not exist is created.  The segment "properties" leads to
\* a mapping, the segment after it to the property under that key.
RECURSIVE setInObject(_, _, _)
RECURSIVE setInMapping(_, _, _)
setInObject(obj, path, value) ==
    LET key == Head(path)
        old == IF key \in DOMAIN obj THEN obj[key] ELSE <<>>
        new == IF Len(path) = 1 THEN value
               ELSE IF key = "properties"
               THEN setInMapping(old, Tail(path), value)
               ELSE setInObject(old, Tail(path), value)
    IN  IF key \in DOMAIN obj THEN [obj EXCEPT ![key] = new]
        ELSE (key :> new) @@ obj

setInMapping(m, path, value) ==
    LET key == Head(path)
        old == IF HasKey(m, key) THEN GetKey(m, key) ELSE <<>>
    IN  SetKey(m, key, IF Len(path) = 1 THEN value
                       ELSE setInObject(old, Tail(path), value))

\* the edit form's onPropertyChanged: setFieldValue(propertyPath, property)
withPropertyChanged(v, propertyId, property) ==
    setInObject(v, propertyPath(propertyId), property)

PropertyChanged ==
    /\ EditorFormShown
    /\ NoDialogOpen
    /\ EditFormShown
    /\ \E t \in NewTitles :
          values' = withPropertyChanged(values, selectedPropertyId,
                                        [selectedProperty EXCEPT !.title = t])
    /\ UNCHANGED <<outsideEditor, isNewSchema, initialValues, touched, isSubmitting,
                   dialogVars, saveVars>>

\* the properties a property edit form reports
ReportedProperties == {StringProperty("u"), MapProperty("u", <<>>, Undefined)}

\* propertyEditForm.onPropertyChanged as a function of the selected id: the
\* handler runs for whichever item of the tree is selected, of any depth.
PropertyChangeReported ==
    /\ EditorFormShown
    /\ selectedPropertyId \in DOMAIN tree.items \ {rootId}
    /\ \E property \in ReportedProperties :
          values' = withPropertyChanged(values, selectedPropertyId, property)
    /\ UNCHANGED <<outsideEditor, isNewSchema, initialValues, touched, isSubmitting,
                   dialogVars, saveVars>>

----------------------------------------------------------------------------
(* SchemaEditorForm: the id and name inputs *)

\* what the user types in the name input and in the id input
Names == {<<>>, Product, MyShop}

ManualIds == {<<>>, Prod}

\* the name input's onChange={handleChange}, and the effect on values.name
NameChanged ==
    /\ EditorFormShown
    /\ NoDialogOpen
    /\ \E name \in Names :
          /\ name # values.name
          /\ values' = autoDeriveId([values EXCEPT !.name = name], touched)
    /\ UNCHANGED <<outsideEditor, isNewSchema, initialValues, touched, isSubmitting,
                   dialogVars, saveVars>>

\* The id input's onChange={handleChange}; the input is disabled unless the
\* schema is new.  handleChange sets the value and leaves touched as it is:
\* the input has no onBlur.
IdChanged ==
    /\ EditorFormShown
    /\ NoDialogOpen
    /\ isNewSchema
    /\ \E id \in ManualIds :
          /\ id # values.id
          /\ values' = [values EXCEPT !.id = id]
    /\ idEditedByUser' = TRUE
    /\ UNCHANGED <<outsideEditor, isNewSchema, initialValues, touched, isSubmitting,
                   dialogVars, saveInFlight, savedSchema, closedWith,
                   snackbar, saveCalls>>

----------------------------------------------------------------------------
(* SchemaEditor: saving *)

\* Formik SUBMIT_ATTEMPT: every field of the values is touched
touchedBySubmit(v) ==
    {"id", "name", "properties"}
        \cup (IF v.propertiesOrder = Undefined THEN {} ELSE {"propertiesOrder"})

\* Formik resetForm({ values }) followed by the effect on touched
resetForm(v) ==
    /\ initialValues' = v
    /\ touched' = {}
    /\ isSubmitting' = FALSE
    /\ values' = autoDeriveId(v, {})

\* a variant of saveDisabled that leaves the pending submission out
saveDisabledUnlessDirty == ~dirty

\* the Save button: disabled={isSubmitting || !dirty}
saveDisabled == isSubmitting \/ ~dirty

\* The Save button (disabled={isSubmitting || !dirty}): Formik's submitForm
\* touches every field and validates; valid values are handed to onSubmit,
\* which calls saveSchema.
HandleSubmit ==
    /\ EditorFormShown
    /\ NoDialogOpen
    /\ ~saveDisabled
    /\ saveCalls < MaxSaves
    /\ touched' = touchedBySubmit(values)
    /\ IF isValid(values)
       THEN /\ isSubmitting' = TRUE
            /\ saveInFlight' = <<values>>
            /\ savedSchema' = <<prepareSchemaForPersistence(values)>>
            /\ saveCalls' = saveCalls + 1
       ELSE /\ isSubmitting' = FALSE
            /\ UNCHANGED <<saveInFlight, savedSchema, saveCalls>>
    /\ UNCHANGED <<outsideEditor, isNewSchema, values, initialValues, dialogVars, closedWith,
                   snackbar, idEditedByUser>>

\* configurationPersistence.saveSchema resolves
SaveSchemaSucceeded ==
    /\ EditorFormShown
    /\ saveInFlight # <<>>
    /\ snackbar' = "success"
    /\ closedWith' = <<saveInFlight[1]>>
    /\ resetForm(saveInFlight[1])
    /\ saveInFlight' = <<>>
    /\ UNCHANGED <<outsideEditor, isNewSchema, dialogVars, savedSchema, saveCalls,
                   idEditedByUser>>

\* configurationPersistence.saveSchema rejects: saveSchema catches the error
\* and resolves to false, and onSubmit goes on to resetForm
SaveSchemaFailed ==
    /\ EditorFormShown
    /\ saveInFlight # <<>>
    /\ snackbar' = "error"
    /\ resetForm(saveInFlight[1])
    /\ saveInFlight' = <<>>
    /\ UNCHANGED <<outsideEditor, isNewSchema, dialogVars, savedSchema, closedWith, saveCalls,
                   idEditedByUser>>

\* the Cancel button (disabled={isSubmitting}): handleClose(undefined)
CancelClicked ==
    /\ EditorFormShown
    /\ NoDialogOpen
    /\ ~isSubmitting
    /\ closedWith' = <<NoSchema>>
    /\ UNCHANGED <<outsideEditor, isNewSchema, formikVars, dialogVars, saveInFlight,
                   savedSchema, snackbar, saveCalls, idEditedByUser>>

----------------------------------------------------------------------------
(* SubmitListener *)

\* the draft of the Formik context: the user edits the name and the id
ListenerDraft(name) == Schema(toSnakeCase(Product), name, <<>>, Undefined)

\* the handler of one effect run and what its doSubmit closes over; current
\* marks the handler of the latest effect run, the one the cleanup clears
Handler(valuesEqualLastValues, valuesEqualInitialValues, valid) ==
    [valuesEqualLastValues |-> valuesEqualLastValues,
     valuesEqualInitialValues |-> valuesEqualInitialValues,
     isValid |-> valid,
     current |-> TRUE]

\* a variant of doSubmit that does not look at the initial values
doSubmitUnlessUnchanged(handler) ==
    ~handler.valuesEqualLastValues /\ handler.isValid

\* doSubmit: whether the handler calls formik.submitForm()
doSubmit(handler) ==
    /\ ~handler.valuesEqualLastValues
    /\ ~handler.valuesEqualInitialValues
    /\ handler.isValid

\* the cleanup of the effect: clearTimeout(handler)
clearTimeout(pending) == SelectSeq(pending, LAMBDA h : ~h.current)

\* One run of the effect on [formik.values, formik.isValid], after the cleanup
\* of the run before it, in a render with values v and isValid valid.
effect(v, valid) ==
    /\ lastValues' = IF equal(lastValues, v) THEN lastValues ELSE v
    /\ timers' = Append(clearTimeout(timers),
                        Handler(equal(lastValues, v),
                                equal(v, formikInitialValues), valid))

\* A field of the context changes (Formik setFieldValue).  The render shows
\* the new values with the isValid of the errors Formik has so far: the
\* validation of the new values settles later.
ValuesChanged ==
    /\ Len(submitted) < MaxSubmissions
    /\ \/ \E name \in Names :
             /\ name # formikValues.name
             /\ formikValues' = [formikValues EXCEPT !.name = name]
       \/ \E id \in ManualIds :
             /\ id # formikValues.id
             /\ formikValues' = [formikValues EXCEPT !.id = id]
    /\ previousValues' = formikValues
    /\ isValidating' = TRUE
    /\ burst' = TRUE
    /\ effect(formikValues', formikIsValid)
    /\ UNCHANGED <<outsideListener, formikInitialValues, formikIsValid,
                   submitted>>

\* Formik sets the errors of the validation of formik.values; the effect runs
\* again when formik.isValid has changed by it
ValidationCompleted ==
    /\ isValidating
    /\ isValidating' = FALSE
    /\ formikIsValid' = isValid(formikValues)
    /\ IF formikIsValid' # formikIsValid
       THEN effect(formikValues, formikIsValid')
       ELSE UNCHANGED <<lastValues, timers>>
    /\ UNCHANGED <<outsideListener, formikValues, formikInitialValues,
                   submitted, previousValues, burst>>

\* A handler fires, 300 ms after its effect run; the validation, which takes
\* no such time, has settled.
TimerFires ==
    /\ ~isValidating
    /\ \E i \in 1..Len(timers) :
          /\ timers' = RemoveAt(timers, i)
          /\ submitted' = IF doSubmit(timers[i])
                          THEN Append(submitted, formikValues)
                          ELSE submitted
          /\ burst' = IF timers[i].current THEN FALSE ELSE burst
    /\ UNCHANGED <<outsideListener, formikValues, formikInitialValues,
                   formikIsValid, isValidating, lastValues, previousValues>>

----------------------------------------------------------------------------
(* Entities *)

\* the ids of the entities the data source holds
StoredIds == {"e1", "e2"}

\* the values the data source holds for an entity
StoredValues(id) == [title |-> id, price |-> 1]

\* An Entity object.  ref tells objects apart that present the same record:
\* 0 is the object fetchEntity returns, the others are objects of table rows.
Entity(id, ref, entityValues) == [id |-> id, ref |-> ref, values |-> entityValues]

\* the objects the rows of a table present
RowEntities ==
    {Entity("e1", 1, StoredValues("e1")), Entity("e1", 2, StoredValues("e1")),
     Entity("e2", 1, StoredValues("e2"))}

\* selectedEntities.map((e) => e.id)
EntityIds(entities) == [i \in 1..Len(entities) |-> entities[i].id]

----------------------------------------------------------------------------
(* ReferenceDialog *)

\* the selectedEntityIds a caller opens the dialog with
InitialSelections ==
    {<<>>, <<<<"e1", "e2">>>>, <<<<"e2", "gone", "e1">>>>, <<<<"e1", "e1">>>>}

\* dataSource.fetchEntity: the entity, or undefined when it is not found
fetchEntity(id) ==
    IF id \in StoredIds THEN <<Entity(id, 0, StoredValues(id))>> ELSE <<>>

\* a variant of fetchedEntities that keeps the entities in the reverse order
RECURSIVE fetchedEntitiesReversed(_)
fetchedEntitiesReversed(ids) ==
    IF ids = <<>> THEN <<>>
    ELSE fetchedEntitiesReversed(Tail(ids)) \o fetchEntity(Head(ids))

\* entities.filter(e => e !== undefined) over the results of Promise.all
RECURSIVE fetchedEntities(_)
fetchedEntities(ids) ==
    IF ids = <<>> THEN <<>>
    ELSE fetchEntity(Head(ids)) \o fetchedEntities(Tail(ids))

\* a variant of toggledSelection that puts a toggled-on entity first
toggledSelectionFirst(entities, entity) ==
    IF \E i \in 1..Len(entities) : entities[i].id = entity.id
    THEN SelectSeq(entities, LAMBDA item : item.id # entity.id)
    ELSE <<entity>> \o entities

\* toggleEntitySelection: newValue
toggledSelection(entities, entity) ==
    IF \E i \in 1..Len(entities) : entities[i].id = entity.id
    THEN SelectSeq(entities, LAMBDA item : item.id # entity.id)
    ELSE Append(entities, entity)

\* the dialog is not open
ReferenceDialogClosed ==
    /\ dialogOpen = FALSE
    /\ multiselect = FALSE
    /\ callbacks = {}
    /\ selectedEntityIds = <<>>
    /\ fetches = <<>>
    /\ staleBatch = <<>>
    /\ dialogReady = FALSE
    /\ dialogSelectedEntities = <<>>
    /\ singleCalls = <<>>
    /\ multipleCalls = <<>>
    /\ onCloseCalls = 0

\* The dialog is opened and has run the effect that fetches the initially
\* selected ids: one fetchEntity call for each id, or an empty selection at
\* once when there are no ids.
ReferenceDialogOpened ==
    /\ dialogOpen = TRUE
    /\ multiselect \in BOOLEAN
    /\ callbacks \in SUBSET {"single", "multiple"}
    /\ selectedEntityIds \in InitialSelections
    /\ fetches = IF selectedEntityIds = <<>> THEN <<>>
                 ELSE [i \in 1..Len(selectedEntityIds[1]) |-> "pending"]
    /\ staleBatch = <<>>
    /\ dialogReady = (selectedEntityIds = <<>>)
    /\ dialogSelectedEntities = <<>>
    /\ singleCalls = <<>>
    /\ multipleCalls = <<>>
    /\ onCloseCalls = 0

\* a variant of allResolved that one resolved fetch satisfies
someResolved(states) == \E j \in 1..Len(states) : states[j] = "resolved"

\* Promise.all(...) is resolved: every fetchEntity call has resolved.  It is
\* rejected, and its then never runs, when one of them is rejected.
allResolved(states) == \A j \in 1..Len(states) : states[j] = "resolved"

\* a variant of thenOfBatch that does not look at unmounted
thenOfBatchUnguarded(unmounted, ids) ==
    /\ dialogReady' = TRUE
    /\ dialogSelectedEntities' = fetchedEntities(ids)

\* the then of Promise.all: if (!unmounted) setSelectedEntities(...)
thenOfBatch(unmounted, ids) ==
    IF ~unmounted
    THEN /\ dialogReady' = TRUE
         /\ dialogSelectedEntities' = fetchedEntities(ids)
    ELSE UNCHANGED <<dialogReady, dialogSelectedEntities>>

\* One fetchEntity call of the effect that ran last settles: it resolves, with
\* the entity or with undefined, or it is rejected.  The cleanup of the effect
\* has run if the dialog was unmounted.
FetchEntitySettled ==
    /\ \E i \in 1..Len(fetches), outcome \in {"resolved", "rejected"} :
          /\ fetches[i] = "pending"
          /\ fetches' = [fetches EXCEPT ![i] = outcome]
    /\ IF allResolved(fetches')
       THEN thenOfBatch(~dialogOpen, selectedEntityIds[1])
       ELSE UNCHANGED <<dialogReady, dialogSelectedEntities>>
    /\ UNCHANGED <<outsideReference, dialogOpen, multiselect, callbacks,
                   selectedEntityIds, staleBatch, singleCalls, multipleCalls,
                   onCloseCalls>>

\* One fetchEntity call of an effect that was cleaned up settles.
StaleFetchEntitySettled ==
    /\ staleBatch # <<>>
    /\ \E i \in 1..Len(staleBatch[1].fetches),
          outcome \in {"resolved", "rejected"} :
          /\ staleBatch[1].fetches[i] = "pending"
          /\ staleBatch' = <<[staleBatch[1] EXCEPT !.fetches[i] = outcome]>>
    /\ IF allResolved(staleBatch'[1].fetches)
       THEN thenOfBatch(TRUE, staleBatch[1].ids)
       ELSE UNCHANGED <<dialogReady, dialogSelectedEntities>>
    /\ UNCHANGED <<outsideReference, dialogOpen, multiselect, callbacks,
                   selectedEntityIds, fetches, singleCalls, multipleCalls,
                   onCloseCalls>>

\* The dialog is rendered with other selectedEntityIds while the fetches of
\* the last effect are outstanding: the cleanup of that effect runs, then the
\* effect again.
SelectedEntityIdsChanged ==
    /\ dialogOpen
    /\ staleBatch = <<>>
    /\ \E i \in 1..Len(fetches) : fetches[i] = "pending"
    /\ \E ids \in InitialSelections \ {selectedEntityIds} :
          /\ selectedEntityIds' = ids
          /\ staleBatch' = <<[ids |-> selectedEntityIds[1], fetches |-> fetches]>>
          /\ IF ids # <<>>
             THEN /\ fetches' = [i \in 1..Len(ids[1]) |-> "pending"]
                  /\ UNCHANGED <<dialogReady, dialogSelectedEntities>>
             ELSE /\ fetches' = <<>>
                  /\ dialogReady' = TRUE
                  /\ dialogSelectedEntities' = <<>>
    /\ UNCHANGED <<outsideReference, dialogOpen, multiselect, callbacks,
                   singleCalls, multipleCalls, onCloseCalls>>

\* a variant of onEntityClick that looks at multiselect only
onEntityClickByMode(entity) ==
    IF ~multiselect
    THEN /\ singleCalls' = Append(singleCalls, <<entity>>)
         /\ dialogOpen' = FALSE
         /\ UNCHANGED <<dialogSelectedEntities, multipleCalls>>
    ELSE /\ dialogSelectedEntities' = toggledSelection(dialogSelectedEntities, entity)
         /\ multipleCalls' = Append(multipleCalls, dialogSelectedEntities')
         /\ UNCHANGED <<dialogOpen, singleCalls>>

\* onEntityClick, with toggleEntitySelection
onEntityClick(entity) ==
    IF ~multiselect /\ "single" \in callbacks
    THEN /\ singleCalls' = Append(singleCalls, <<entity>>)
         /\ dialogOpen' = FALSE
         /\ UNCHANGED <<dialogSelectedEntities, multipleCalls>>
    ELSE /\ dialogSelectedEntities' = toggledSelection(dialogSelectedEntities, entity)
         /\ multipleCalls' = IF "multiple" \in callbacks
                             THEN Append(multipleCalls, dialogSelectedEntities')
                             ELSE multipleCalls
         /\ UNCHANGED <<dialogOpen, singleCalls>>

\* a click on a row of the table, which is rendered once selectedEntities is
\* defined
EntityClick ==
    /\ dialogOpen
    /\ dialogReady
    /\ Len(singleCalls) + Len(multipleCalls) < MaxSelectionCalls
    /\ \E entity \in RowEntities : onEntityClick(entity)
    /\ UNCHANGED <<outsideReference, multiselect, callbacks, selectedEntityIds,
                   fetches, staleBatch, dialogReady, onCloseCalls>>

\* a variant of onClear that looks at multiselect only
onClearByMode ==
    IF ~multiselect
    THEN /\ singleCalls' = Append(singleCalls, <<>>)
         /\ UNCHANGED multipleCalls
    ELSE /\ multipleCalls' = Append(multipleCalls, <<>>)
         /\ UNCHANGED singleCalls

\* onClear
onClear ==
    IF ~multiselect /\ "single" \in callbacks
    THEN /\ singleCalls' = Append(singleCalls, <<>>)
         /\ UNCHANGED multipleCalls
    ELSE IF "multiple" \in callbacks
    THEN /\ multipleCalls' = Append(multipleCalls, <<>>)
         /\ UNCHANGED singleCalls
    ELSE UNCHANGED <<singleCalls, multipleCalls>>

\* the Clear button, an action of the table
Clear ==
    /\ dialogOpen
    /\ dialogReady
    /\ Len(singleCalls) + Len(multipleCalls) < MaxSelectionCalls
    /\ onClear
    /\ UNCHANGED <<outsideReference, dialogOpen, multiselect, callbacks,
                   selectedEntityIds, fetches, staleBatch, dialogReady,
                   dialogSelectedEntities, onCloseCalls>>

\* onDone: the Done button
Done ==
    /\ dialogOpen
    /\ dialogOpen' = FALSE
    /\ onCloseCalls' = onCloseCalls + 1
    /\ UNCHANGED <<outsideReference, multiselect, callbacks, selectedEntityIds,
                   fetches, staleBatch, dialogReady, dialogSelectedEntities,
                   singleCalls, multipleCalls>>

----------------------------------------------------------------------------
(* EntityCollectionTable *)

\* the columns of the table
CellNames == {"title", "price"}

\* the values a cell editor commits for a column
CellValues(name) == IF name = "title" THEN {"new", ""} ELSE {2}

\* util/permissions: canEdit, for the permissions, the user and the path of
\* the table
canEdit(entity) == entity.id \in editableIds

\* util/permissions: canDelete
canDelete(entity) == entity.id \in deletableIds

\* util/permissions: canCreate, which takes no entity
canCreate == creatable

\* the cells of the table
Cells == StoredIds \X CellNames

\* no cell edit was committed: the rows present what the data source holds
NoSaves ==
    /\ saveStates = <<>>
    /\ cellStates = [cell \in Cells |-> "none"]
    /\ dataSourceValues = [id \in StoredIds |-> StoredValues(id)]
    /\ rowValues = [id \in StoredIds |-> StoredValues(id)]

\* the table as it is mounted with the default configuration
TableMounted ==
    /\ inlineEditing = TRUE
    /\ selectionEnabled = TRUE
    /\ editableIds = {}
    /\ deletableIds = {}
    /\ tableSelectedEntities = <<>>
    /\ saveRequests = <<>>
    /\ cellEdits = <<>>
    /\ NoSaves
    /\ creatable = TRUE
    /\ sideEntity = <<>>
    /\ deleteEntityClicked = <<>>
    /\ deletedIds = {}
    /\ lastDelete = <<>>

\* the table as it is mounted with any selectionEnabled and any outcomes of
\* canDelete
TableMountedWith ==
    /\ inlineEditing = TRUE
    /\ selectionEnabled \in BOOLEAN
    /\ editableIds = {}
    /\ deletableIds \in SUBSET StoredIds
    /\ tableSelectedEntities = <<>>
    /\ saveRequests = <<>>
    /\ cellEdits = <<>>
    /\ NoSaves
    /\ creatable = TRUE
    /\ sideEntity = <<>>
    /\ deleteEntityClicked = <<>>
    /\ deletedIds = {}
    /\ lastDelete = <<>>

\* the table as it is mounted with any inlineEditing and any outcomes of
\* canEdit
TableMountedForEditing ==
    /\ inlineEditing \in BOOLEAN
    /\ selectionEnabled = TRUE
    /\ editableIds \in SUBSET StoredIds
    /\ deletableIds = {}
    /\ tableSelectedEntities = <<>>
    /\ saveRequests = <<>>
    /\ cellEdits = <<>>
    /\ NoSaves
    /\ creatable = TRUE
    /\ sideEntity = <<>>
    /\ deleteEntityClicked = <<>>
    /\ deletedIds = {}
    /\ lastDelete = <<>>

\* the table as it is mounted with any outcomes of canCreate, canEdit and
\* canDelete
TableMountedWithPermissions ==
    /\ inlineEditing = TRUE
    /\ selectionEnabled = TRUE
    /\ editableIds \in SUBSET StoredIds
    /\ deletableIds \in SUBSET StoredIds
    /\ creatable \in BOOLEAN
    /\ sideEntity = <<>>
    /\ tableSelectedEntities = <<>>
    /\ saveRequests = <<>>
    /\ cellEdits = <<>>
    /\ NoSaves
    /\ deleteEntityClicked = <<>>
    /\ deletedIds = {}
    /\ lastDelete = <<>>

\* toggleEntitySelection: newValue.  indexOf and !== compare the objects.
toggleEntitySelection(entities, entity) ==
    IF \E i \in 1..Len(entities) : entities[i] = entity
    THEN SelectSeq(entities, LAMBDA item : item # entity)
    ELSE Append(entities, entity)

\* the objects the rows of the table present: a deleted entity has no row
TableRows ==
    {Entity(entity.id, entity.ref, rowValues[entity.id]) :
        entity \in {row \in RowEntities : row.id \notin deletedIds}}

\* The checkbox of a row, which CollectionRowActions shows when
\* selectionEnabled.
ToggleEntitySelection ==
    /\ selectionEnabled
    /\ \E entity \in TableRows :
          tableSelectedEntities' =
              toggleEntitySelection(tableSelectedEntities, entity)
    /\ UNCHANGED <<outsideTable, rowActionVars, inlineEditing, selectionEnabled, editableIds,
                   deletableIds, cellVars, deleteVars>>

\* a variant of checkInlineEditing that leaves the permission out
checkInlineEditingOfCollection(entity) == inlineEditing

\* checkInlineEditing
checkInlineEditing(entity) ==
    IF ~canEdit(entity) THEN FALSE ELSE inlineEditing

\* a variant of saveEntityRequest that sends the changed field alone
saveEntityRequestOfField(entity, name, value) ==
    [entityId |-> entity.id,
     values   |-> [n \in {name} |-> value],
     status   |-> "existing"]

\* a variant of saveEntityRequest that merges the changed field into the
\* values the data source holds
saveEntityRequestOfStoredValues(entity, name, value) ==
    [entityId |-> entity.id,
     values   |-> [n \in DOMAIN dataSourceValues[entity.id] \cup {name} |->
                      IF n = name THEN value
                      ELSE dataSourceValues[entity.id][n]],
     status   |-> "existing"]

\* onCellChanged: the argument of dataSource.saveEntity
saveEntityRequest(entity, name, value) ==
    [entityId |-> entity.id,
     values   |-> [n \in DOMAIN entity.values \cup {name} |->
                      IF n = name THEN value ELSE entity.values[n]],
     status   |-> "existing"]

\* A cell editor commits a value.  CollectionTable renders an editor, and
\* calls onCellValueChange, only in the rows its inlineEditing(entity) is true
\* for.
CellChanged ==
    /\ Len(saveRequests) < MaxCellEdits
    /\ \E entity \in TableRows, name \in CellNames :
          /\ checkInlineEditing(entity)
          /\ \E value \in CellValues(name) :
                /\ saveRequests' =
                       Append(saveRequests, saveEntityRequest(entity, name, value))
                /\ cellEdits' =
                       Append(cellEdits, [entity |-> entity, name |-> name,
                                          value |-> value])
    /\ saveStates' = Append(saveStates, "pending")
    /\ UNCHANGED <<outsideTable, rowActionVars, inlineEditing, selectionEnabled, editableIds,
                   deletableIds, tableSelectedEntities, cellStates,
                   dataSourceValues, rowValues, deleteVars>>

\* the cell a save request was sent for
CellOf(i) == <<cellEdits[i].entity.id, cellEdits[i].name>>

\* dataSource.saveEntity: the values of the entity after the save, the
\* values of the request written over the stored ones
savedValues(stored, request) ==
    [n \in DOMAIN stored \cup DOMAIN request.values |->
        IF n \in DOMAIN request.values THEN request.values[n] ELSE stored[n]]

\* onCellChanged: onSaveSuccess, setSaved(true) of the cell
onSaveSuccess(states, cell) == [states EXCEPT ![cell] = "saved"]

\* a variant of onSaveFailure that marks every cell of the row
onSaveFailureOfRow(states, cell) ==
    [c \in DOMAIN states |-> IF c[1] = cell[1] THEN "error" ELSE states[c]]

\* onCellChanged: onSaveFailure, setError(e) of the cell
onSaveFailure(states, cell) == [states EXCEPT ![cell] = "error"]

\* dataSource.saveEntity succeeds: the data source holds the values of the
\* request, and onSaveSuccess is called.  Requests in flight settle in any
\* order.
SaveEntitySucceeded ==
    /\ \E i \in 1..Len(saveRequests) :
          /\ saveStates[i] = "pending"
          /\ saveStates' = [saveStates EXCEPT ![i] = "saved"]
          /\ dataSourceValues' =
                 [dataSourceValues EXCEPT ![saveRequests[i].entityId] =
                     savedValues(@, saveRequests[i])]
          /\ cellStates' = onSaveSuccess(cellStates, CellOf(i))
    /\ UNCHANGED <<outsideTable, rowActionVars, inlineEditing, selectionEnabled, editableIds,
                   deletableIds, tableSelectedEntities, saveRequests,
                   cellEdits, rowValues, deleteVars>>

\* dataSource.saveEntity fails: onSaveFailure is called
SaveEntityFailed ==
    /\ \E i \in 1..Len(saveRequests) :
          /\ saveStates[i] = "pending"
          /\ saveStates' = [saveStates EXCEPT ![i] = "error"]
          /\ cellStates' = onSaveFailure(cellStates, CellOf(i))
    /\ UNCHANGED <<outsideTable, rowActionVars, inlineEditing, selectionEnabled, editableIds,
                   deletableIds, tableSelectedEntities, saveRequests,
                   cellEdits, dataSourceValues, rowValues, deleteVars>>

\* The collection is fetched again, or its listener delivers: the row of an
\* entity presents the values the data source holds.
RowRefreshed ==
    /\ \E id \in StoredIds :
          /\ rowValues[id] # dataSourceValues[id]
          /\ rowValues' = [rowValues EXCEPT ![id] = dataSourceValues[id]]
    /\ UNCHANGED <<outsideTable, rowActionVars, inlineEditing, selectionEnabled, editableIds,
                   deletableIds, tableSelectedEntities, saveRequests,
                   cellEdits, saveStates, cellStates, dataSourceValues,
                   deleteVars>>

\* tableRowActionsBuilder: the permissions the side panel is opened with
rowPermissions(entity) ==
    [edit |-> canEdit(entity), create |-> canCreate, delete |-> canDelete(entity)]

\* tableRowActionsBuilder: the handlers CollectionRowActions gets for the row
\* of the entity; FALSE is undefined, and CollectionRowActions shows no
\* action for a handler it does not get
rowActions(entity) ==
    [onEditClicked   |-> TRUE,
     onCopyClicked   |-> canEdit(entity),
     onDeleteClicked |-> canDelete(entity)]

\* tableRowActionsBuilder: onEditClicked
EditClicked ==
    /\ \E entity \in TableRows :
          /\ rowActions(entity).onEditClicked
          /\ sideEntity' = <<[entityId |-> entity.id, copy |-> FALSE,
                              permissions |-> rowPermissions(entity)]>>
    /\ UNCHANGED <<outsideTable, creatable, inlineEditing, selectionEnabled,
                   editableIds, deletableIds, tableSelectedEntities, cellVars,
                   deleteVars>>

\* tableRowActionsBuilder: onCopyClicked
CopyClicked ==
    /\ \E entity \in TableRows :
          /\ rowActions(entity).onCopyClicked
          /\ sideEntity' = <<[entityId |-> entity.id, copy |-> TRUE,
                              permissions |-> rowPermissions(entity)]>>
    /\ UNCHANGED <<outsideTable, creatable, inlineEditing, selectionEnabled,
                   editableIds, deletableIds, tableSelectedEntities, cellVars,
                   deleteVars>>

\* a variant of multipleDeleteEnabled that one deletable entity satisfies
someDeleteEnabled ==
    \E i \in 1..Len(tableSelectedEntities) : canDelete(tableSelectedEntities[i])

\* toolbarActionsBuilder: multipleDeleteEnabled
multipleDeleteEnabled ==
    \A i \in 1..Len(tableSelectedEntities) : canDelete(tableSelectedEntities[i])

\* toolbarActionsBuilder: the multiple delete button is rendered and is not
\* disabled
multipleDeleteButtonEnabled ==
    /\ selectionEnabled
    /\ ~(Len(tableSelectedEntities) = 0 \/ ~multipleDeleteEnabled)

\* tableRowActionsBuilder: the delete action of a row, which
\* CollectionRowActions gets when deleteEnabled, calls setDeleteEntityClicked
DeleteClicked ==
    /\ deleteEntityClicked = <<>>
    /\ \E entity \in TableRows :
          /\ rowActions(entity).onDeleteClicked
          /\ deleteEntityClicked' =
                 <<[multiple |-> FALSE, entities |-> <<entity>>]>>
    /\ UNCHANGED <<outsideTable, rowActionVars, inlineEditing, selectionEnabled, editableIds,
                   deletableIds, tableSelectedEntities, cellVars,
                   deletedIds, lastDelete>>

\* toolbarActionsBuilder: onMultipleDeleteClick
MultipleDeleteClicked ==
    /\ deleteEntityClicked = <<>>
    /\ multipleDeleteButtonEnabled
    /\ deleteEntityClicked' =
           <<[multiple |-> TRUE, entities |-> tableSelectedEntities]>>
    /\ UNCHANGED <<outsideTable, rowActionVars, inlineEditing, selectionEnabled, editableIds,
                   deletableIds, tableSelectedEntities, cellVars,
                   deletedIds, lastDelete>>

\* DeleteEntityDialog: onClose, when the user cancels
DeleteDialogClosed ==
    /\ deleteEntityClicked # <<>>
    /\ deleteEntityClicked' = <<>>
    /\ UNCHANGED <<outsideTable, rowActionVars, inlineEditing, selectionEnabled, editableIds,
                   deletableIds, tableSelectedEntities, cellVars,
                   deletedIds, lastDelete>>

\* a variant of internalOnEntityDelete that compares the objects
internalOnEntityDeleteOfObject(entity) ==
    SelectSeq(tableSelectedEntities, LAMBDA e : e # entity)

\* internalOnEntityDelete: the new selectedEntities
internalOnEntityDelete(entity) ==
    SelectSeq(tableSelectedEntities, LAMBDA e : e.id # entity.id)

\* internalOnMultipleEntitiesDelete: the new selectedEntities
internalOnMultipleEntitiesDelete(entities) == <<>>

\* DeleteEntityDialog: the user confirms and the deleteEntity calls, one for
\* each entity, settle; succeeded holds the ids the data source deleted.  A
\* single delete that succeeded calls onEntityDelete and onClose, a multiple
\* delete calls onMultipleEntitiesDelete and onClose.
DeleteCompleted ==
    /\ deleteEntityClicked # <<>>
    /\ LET clicked == deleteEntityClicked[1]
       IN \E succeeded \in SUBSET SeqToSet(EntityIds(clicked.entities)) :
             /\ deletedIds' = deletedIds \cup succeeded
             /\ lastDelete' = <<[multiple  |-> clicked.multiple,
                                 entities  |-> clicked.entities,
                                 succeeded |-> succeeded,
                                 selectedBefore |-> tableSelectedEntities]>>
             /\ IF clicked.multiple
                THEN /\ tableSelectedEntities' =
                            internalOnMultipleEntitiesDelete(clicked.entities)
                     /\ deleteEntityClicked' = <<>>
                ELSE IF succeeded # {}
                THEN /\ tableSelectedEntities' =
                            internalOnEntityDelete(clicked.entities[1])
                     /\ deleteEntityClicked' = <<>>
                ELSE UNCHANGED <<tableSelectedEntities, deleteEntityClicked>>
    /\ UNCHANGED <<outsideTable, rowActionVars, inlineEditing, selectionEnabled, editableIds,
                   deletableIds, cellVars>>

----------------------------------------------------------------------------
(* useFirebaseStorageSource *)

\* the storage paths that are asked for
StoragePaths == {"a", "b"}

\* the promise the n-th getDownloadURL call of firebase/storage for a path
\* returns
Promise(path, n) == [path |-> path, call |-> n]

\* const urlsCache: any = {}
EmptyCache == [path \in StoragePaths |-> <<>>]

\* useFirebaseStorageSource was called once: the body of the hook has made one
\* urlsCache and returned one storage source
StorageSourceCreated ==
    /\ urlsCaches = <<EmptyCache>>
    /\ lookups = [path \in StoragePaths |-> 0]
    /\ promises = [promise \in {Promise(path, n) : path \in StoragePaths,
                                                   n \in 1..MaxSources}
                      |-> "none"]
    /\ firstReturned = [path \in StoragePaths |-> <<>>]
    /\ lastReturned = <<>>

\* useFirebaseStorageSource is called again, as a hook is on every render of
\* the component that calls it: the body makes a new urlsCache and returns a
\* new storage source.  The sources returned before stay with who holds them.
UseFirebaseStorageSource ==
    /\ Len(urlsCaches) < MaxSources
    /\ urlsCaches' = Append(urlsCaches, EmptyCache)
    /\ UNCHANGED <<outsideStorage, lookups, promises, firstReturned,
                   lastReturned>>

\* getDownloadURL of the storage source i
GetDownloadURL ==
    /\ \E i \in 1..Len(urlsCaches), storagePath \in StoragePaths :
          LET cached == urlsCaches[i][storagePath]
              downloadURL == Promise(storagePath, lookups[storagePath] + 1)
              returned == IF cached # <<>> THEN cached[1] ELSE downloadURL
          IN  /\ IF cached # <<>>
                 THEN UNCHANGED <<urlsCaches, lookups, promises>>
                 ELSE /\ lookups' = [lookups EXCEPT ![storagePath] = @ + 1]
                      /\ promises' = [promises EXCEPT ![downloadURL] = "pending"]
                      /\ urlsCaches' = [urlsCaches EXCEPT ![i][storagePath] =
                                           <<downloadURL>>]
              /\ firstReturned' =
                     IF firstReturned[storagePath] = <<>>
                     THEN [firstReturned EXCEPT ![storagePath] = <<returned>>]
                     ELSE firstReturned
              /\ lastReturned' = <<[source |-> i, path |-> storagePath,
                                    promise |-> returned]>>
    /\ UNCHANGED outsideStorage

\* a promise of firebase/storage settles, with the URL or with an error
DownloadURLSettled ==
    /\ \E promise \in DOMAIN promises :
          /\ promises[promise] = "pending"
          /\ \E outcome \in {"resolved", "rejected"} :
                promises' = [promises EXCEPT ![promise] = outcome]
    /\ UNCHANGED <<outsideStorage, urlsCaches, lookups, firstReturned,
                   lastReturned>>

----------------------------------------------------------------------------
(* Specifications *)

\* Formik is mounted with the initial values s
FormikMounted(s) ==
    /\ values = s
    /\ initialValues = s
    /\ touched = {}
    /\ isSubmitting = FALSE
    /\ selectedPropertyId = <<>>
    /\ pendingMove = <<>>
    /\ newPropertyDialogOpen = FALSE
    /\ saveInFlight = <<>>
    /\ savedSchema = <<>>
    /\ closedWith = <<>>
    /\ snackbar = "none"
    /\ saveCalls = 0
    /\ idEditedByUser = FALSE

\* the schema editor is opened for the schema s, which the registry has found
InitEditor(s) ==
    /\ FormikMounted(s)
    /\ isNewSchema = (s = EmptySchema)
    /\ schemaId = IF s = EmptySchema THEN <<>> ELSE <<s.id>>
    /\ registryInitialised = TRUE
    /\ findSchemaThrows = FALSE
    /\ schema = IF s = EmptySchema THEN <<>> ELSE <<s>>
    /\ error = <<>>

\* a SubmitListener is mounted and has run its effect once
InitListener ==
    /\ formikValues = ListenerDraft(Product)
    /\ formikInitialValues = ListenerDraft(Product)
    /\ formikIsValid = TRUE
    /\ isValidating = FALSE
    /\ lastValues = ListenerDraft(Product)
    /\ timers = <<Handler(TRUE, TRUE, TRUE)>>
    /\ submitted = <<>>
    /\ previousValues = ListenerDraft(Product)
    /\ burst = FALSE

Init ==
    /\ \E s \in {EmptySchema, ProductSchema} : InitEditor(s)
    /\ InitListener
    /\ StorageSourceCreated
    /\ ReferenceDialogClosed
    /\ TableMounted

\* a reference dialog is opened
InitReference ==
    /\ InitEditor(EmptySchema)
    /\ InitListener
    /\ StorageSourceCreated
    /\ ReferenceDialogOpened
    /\ TableMounted

\* an entity collection table is mounted
InitTable ==
    /\ InitEditor(EmptySchema)
    /\ InitListener
    /\ StorageSourceCreated
    /\ ReferenceDialogClosed
    /\ TableMountedWith

NextTree ==
    \/ DragEnd
    \/ AcceptPendingMove
    \/ CancelPendingMove
    \/ PropertyClick
    \/ OpenNewPropertyDialog
    \/ CancelNewProperty
    \/ PropertyCreated
    \/ PropertyChanged

\* the schema editor's property tree: add, edit, select and move properties
SpecTree == Init /\ [][NextTree]_vars

\* the schema editor is opened for a schema with nested maps
InitPropertyForm ==
    /\ \E s \in {ProductSchema, DeepSchema} : InitEditor(s)
    /\ InitListener
    /\ StorageSourceCreated
    /\ ReferenceDialogClosed
    /\ TableMounted

NextPropertyForm ==
    \/ PropertyClick
    \/ PropertyChangeReported

\* propertyEditForm.onPropertyChanged, applied to the selected id of any depth
SpecPropertyForm == InitPropertyForm /\ [][NextPropertyForm]_vars

\* The schema editor is mounted, for a new schema, for a schema of the
\* registry or for an id the registry does not know, before the registry is
\* initialised.
InitLookup ==
    /\ FormikMounted(EmptySchema)
    /\ schemaId \in {<<>>, <<ProductSchema.id>>, <<Prod>>}
    /\ isNewSchema = (schemaId = <<>>)
    /\ registryInitialised = FALSE
    /\ findSchemaThrows \in BOOLEAN
    /\ schema = <<>>
    /\ error = <<>>
    /\ InitListener
    /\ StorageSourceCreated
    /\ ReferenceDialogClosed
    /\ TableMounted

NextForm ==
    \/ NameChanged
    \/ IdChanged
    \/ HandleSubmit
    \/ SaveSchemaSucceeded
    \/ SaveSchemaFailed
    \/ CancelClicked

\* the schema editor's id and name inputs and its saving
SpecForm == Init /\ [][NextForm]_vars

NextEditor ==
    \/ DragEnd
    \/ AcceptPendingMove
    \/ CancelPendingMove
    \/ HandleSubmit
    \/ SaveSchemaSucceeded
    \/ SaveSchemaFailed

\* the moves of the schema editor's property tree while the draft is saved
SpecEditor == Init /\ [][NextEditor]_vars

NextLookup ==
    \/ SchemaRegistryInitialised
    \/ NextForm

\* the schema editor from its mounting on: the lookup of the schema, then the
\* form
SpecLookup == InitLookup /\ [][NextLookup]_vars

NextListener ==
    \/ ValuesChanged
    \/ ValidationCompleted
    \/ TimerFires

\* a SubmitListener mounted in a Formik context
SpecListener == Init /\ [][NextListener]_vars

\* A SubmitListener whose timers fire and whose validations settle: a pending
\* setTimeout handler runs after 300 ms, and Formik completes a validation it
\* has started.
SpecListenerLive ==
    /\ SpecListener
    /\ WF_vars(ValidationCompleted)
    /\ WF_vars(TimerFires)

NextReference ==
    \/ FetchEntitySettled
    \/ EntityClick
    \/ Clear
    \/ Done

\* a ReferenceDialog, opened in single-select or in multi-select mode
SpecReference == InitReference /\ [][NextReference]_vars

\* an entity collection table is mounted, its cells are edited
InitCells ==
    /\ InitEditor(EmptySchema)
    /\ InitListener
    /\ StorageSourceCreated
    /\ ReferenceDialogClosed
    /\ TableMountedForEditing

NextCells ==
    \/ CellChanged
    \/ SaveEntitySucceeded
    \/ SaveEntityFailed
    \/ RowRefreshed

\* an EntityCollectionTable: inline cell edits
SpecCells == InitCells /\ [][NextCells]_vars

\* an entity collection table is mounted, with any permissions
InitRowActions ==
    /\ InitEditor(EmptySchema)
    /\ InitListener
    /\ StorageSourceCreated
    /\ ReferenceDialogClosed
    /\ TableMountedWithPermissions

NextRowActions ==
    \/ EditClicked
    \/ CopyClicked
    \/ DeleteClicked
    \/ DeleteDialogClosed

\* an EntityCollectionTable: the actions of its rows
SpecRowActions == InitRowActions /\ [][NextRowActions]_vars

NextTable ==
    \/ ToggleEntitySelection
    \/ DeleteClicked
    \/ MultipleDeleteClicked
    \/ DeleteDialogClosed
    \/ DeleteCompleted

\* an EntityCollectionTable: row selection and deletes
SpecTable == InitTable /\ [][NextTable]_vars

NextReferenceProps ==
    \/ NextReference
    \/ SelectedEntityIdsChanged
    \/ StaleFetchEntitySettled

\* a ReferenceDialog that is rendered again with other selectedEntityIds
SpecReferenceProps == InitReference /\ [][NextReferenceProps]_vars

\* a storage source is created
InitStorage ==
    /\ InitEditor(EmptySchema)
    /\ InitListener
    /\ StorageSourceCreated
    /\ ReferenceDialogClosed
    /\ TableMounted

NextStorage ==
    \/ UseFirebaseStorageSource
    \/ GetDownloadURL
    \/ DownloadURLSettled

\* the storage sources of useFirebaseStorageSource and their download URLs
SpecStorage == InitStorage /\ [][NextStorage]_vars

Next ==
    \/ SchemaRegistryInitialised
    \/ NextTree
    \/ NextForm
    \/ NextPropertyForm
    \/ NextListener
    \/ NextReferenceProps
    \/ NextCells
    \/ NextRowActions
    \/ NextTable
    \/ NextStorage

Spec == Init /\ [][Next]_vars

----------------------------------------------------------------------------
(* Properties of the property tree, checked under SpecTree *)

\* the property of the item at a position
DraggedProperty(t, source) ==
    t.items[t.items[source.parentId].children[source.index + 1]].data.property

\* the destination parent is an item whose own property is of dataType "map"
DestinationIsMap(t, destination) ==
    /\ destination.parentId \in DOMAIN t.items
    /\ t.items[destination.parentId].data.property.kind = "object"
    /\ t.items[destination.parentId].data.property.dataType = "map"

\* the validity predicate as the specification states it
MoveAllowed(t, source, destination) ==
    /\ DraggedProperty(t, source).kind # "function"
    /\ destination.index # NoIndex
    /\ destination.parentId = rootId \/ DestinationIsMap(t, destination)

\* propertiesOrder lists exactly the keys of properties, each once, at the top
\* level and in every nested map property
RECURSIVE OrderListsKeys(_, _)
OrderListsKeys(properties, order) ==
    /\ order # Undefined
    /\ Len(order) = Len(properties)
    /\ SeqToSet(order) = SeqToSet(ObjectKeys(properties))
    /\ \A i \in 1..Len(properties) :
          IsMap(properties[i].value) =>
              OrderListsKeys(properties[i].value.properties,
                             properties[i].value.propertiesOrder)

\* C1: round-trip law.  For every draft whose propertiesOrder lists exactly
\* the keys of its properties (nested map properties included), flattening the
\* tree built from (properties, propertiesOrder) gives back the same mapping
\* (as deep equality of objects sees it) and the same order.
C1_RoundTrip ==
    OrderListsKeys(values.properties, values.propertiesOrder) =>
        LET flat == treeToProperties(tree)
        IN  /\ Canonical(flat[1]) = Canonical(values.properties)
            /\ flat[2] = values.propertiesOrder

\* a draft with a nested map whose mapping is not in the order of its
\* propertiesOrder, which satisfies the precondition of the law
C1_Witness ==
    /\ OrderListsKeys(values.properties, values.propertiesOrder)
    /\ ObjectKeys(values.properties) # values.propertiesOrder
    /\ \E i \in 1..Len(values.properties) :
          /\ IsMap(values.properties[i].value)
          /\ values.properties[i].value.properties # <<>>

\* C2: a move whose dragged item is a builder property is rejected by the
\* validity predicate for every destination (the root and map-typed parents
\* included, with or without an index), and a drag of it that ends leaves the
\* draft and the pending move as they are.
C2_BuilderNeverMoves ==
    /\ [](LET t == tree
          IN  \A source \in SourcePositions(t) :
                DraggedProperty(t, source).kind = "function" =>
                    \A destination \in DestinationPositions(t, source) :
                        ~isValidDrag(t, source, destination))
    /\ [][LET t == tree
          IN  \A source \in SourcePositions(t) :
                DraggedProperty(t, source).kind = "function" =>
                    \A destination \in DestinationPositions(t, source) :
                        onDragEnd(t, source, <<destination>>) =>
                            (values' = values /\ pendingMove' = pendingMove)]_vars

\* a builder can be dragged and there are a root and a map-typed parent to
\* drop it under
C2_Witness ==
    /\ NoDialogOpen
    /\ \E source \in SourcePositions(tree) :
          /\ DraggedProperty(tree, source).kind = "function"
          /\ \E d1, d2 \in DestinationPositions(tree, source) :
                /\ d1.parentId = rootId /\ d1.index # NoIndex
                /\ d2.parentId # rootId /\ d2.index # NoIndex
                /\ DestinationIsMap(tree, d2)

\* C3: for a dragged property that is no builder and a destination with a
\* concrete index, the validity predicate accepts the move if and only if the
\* destination parent is the root or an item whose own property has dataType
\* "map", whatever the dataType of the dragged property.
C3_ValidIffRootOrMap ==
    LET t == tree
    IN  \A source \in SourcePositions(t) :
            DraggedProperty(t, source).kind # "function" =>
                \A destination \in DestinationPositions(t, source) :
                    destination.index # NoIndex =>
                        (isValidDrag(t, source, destination)
                            <=> (destination.parentId = rootId
                                 \/ DestinationIsMap(t, destination)))

\* a string-typed property can be dropped, at an index, under a map-typed
\* parent and under a parent that is no map, and a map-typed property under a
\* parent that is no map
C3_Witness ==
    \E s1, s2 \in SourcePositions(tree) :
        /\ DraggedProperty(tree, s1).dataType = "map"
        /\ DraggedProperty(tree, s2).dataType = "string"
        /\ \E d1 \in DestinationPositions(tree, s1) :
              /\ d1.index # NoIndex /\ d1.parentId # rootId
              /\ ~DestinationIsMap(tree, d1)
        /\ \E d2, d3 \in DestinationPositions(tree, s2) :
              /\ d2.index # NoIndex /\ d2.parentId # rootId
              /\ d3.index # NoIndex /\ d3.parentId # rootId
              /\ DestinationIsMap(tree, d2)
              /\ ~DestinationIsMap(tree, d3)

\* C4: a drag that ends with no destination, or with a move the validity
\* predicate of the specification rejects, changes neither properties nor
\* propertiesOrder and records no pending move.
C4_RejectedDragIsNoOp ==
    [][LET t == tree
       IN  \A source \in SourcePositions(t) :
             /\ onDragEnd(t, source, <<>>) =>
                   (values' = values /\ pendingMove' = pendingMove)
             /\ \A destination \in DestinationPositions(t, source) :
                   (/\ ~MoveAllowed(t, source, destination)
                    /\ onDragEnd(t, source, <<destination>>))
                       => (values' = values /\ pendingMove' = pendingMove)]_vars

\* an item can be dragged onto a property that is no map, and dropped there
\* with and without an index
C4_Witness ==
    /\ NoDialogOpen
    /\ \E source \in SourcePositions(tree) :
          /\ DraggedProperty(tree, source).kind = "object"
          /\ \E d1, d2 \in DestinationPositions(tree, source) :
                /\ d1.parentId = d2.parentId
                /\ d1.parentId # rootId
                /\ ~DestinationIsMap(tree, d1)
                /\ d1.index = NoIndex
                /\ d2.index # NoIndex

C6_OrderKeysAreProperties ==
    SeqToSet(OrderOrEmpty(values.propertiesOrder))
        = SeqToSet(ObjectKeys(values.properties))

\* a draft to which a property was added, in which a property was edited and
\* in which a move between parents was applied
C6_Witness ==
    /\ HasKey(values.properties, "n")
    /\ IsMap(GetKey(values.properties, "n"))
    /\ GetKey(values.properties, "n").title = "u"
    /\ GetKey(values.properties, "n").properties # <<>>

\* C7: while the schema is new and the id field has not been touched, every
\* change of the name to a non-empty text leaves the id equal to the slug of
\* the new name: "Product" gives "product", "My Shop" gives "my_shop".
C7_IdFollowsName ==
    [][(/\ isNewSchema
        /\ "id" \notin touched
        /\ "id" \notin touched'
        /\ values'.name # values.name
        /\ values'.name # <<>>)
          => /\ values'.id = toSnakeCase(values'.name)
             /\ values'.name = Product
                  => values'.id = <<"p", "r", "o", "d", "u", "c", "t">>
             /\ values'.name = MyShop
                  => values'.id = <<"m", "y", "_", "s", "h", "o", "p">>]_vars

C7_Witness ==
    /\ isNewSchema
    /\ "id" \notin touched
    /\ values.name = MyShop
    /\ values.name # initialValues.name
    /\ values.id = <<"m", "y", "_", "s", "h", "o", "p">>

\* C8: once the user has typed in the id input, no later change of the name
\* alters the id.
C8_ManualIdIsKept ==
    [][(idEditedByUser /\ NameChanged) => values'.id = values.id]_vars

\* C9: when the save fails an error notification is shown, handleClose is not
\* called, the draft values are left as they are, the draft can be submitted
\* again without another edit, and no save is started by the failure itself.
C9_FailedSaveCanBeRetried ==
    [][SaveSchemaFailed
          => /\ snackbar' = "error"
             /\ closedWith' = closedWith
             /\ values' = values
             /\ dirty'
             /\ ~isSubmitting'
             /\ saveInFlight' = <<>>
             /\ saveCalls' = saveCalls]_vars

\* C10: when the save succeeds the dirty flag is cleared and handleClose is
\* called with the schema that was handed to the persistence collaborator
\* (the same schema as deep equality of objects sees it).
C10_SavedSchemaIsReported ==
    [][SaveSchemaSucceeded
          => /\ ~dirty'
             /\ closedWith' # <<>>
             /\ equal(closedWith'[1], savedSchema[1])]_vars

----------------------------------------------------------------------------
(* Properties of SubmitListener, checked under SpecListener *)

\* the values of the last formik.submitForm() call, if any
LastSubmitted == IF submitted = <<>> THEN <<>> ELSE <<submitted[Len(submitted)]>>

\* C11: debounced auto-submit.  Every change of the values cancels the
\* pending handler and arms a new one, so that at most one handler is pending
\* and no change submits; and when the handler fires after a burst of changes
\* that leaves a draft that is valid, differs from the initial values and
\* differs from the values last submitted, exactly one submission is issued.
C11_BurstSubmitsOnce ==
    [][/\ Len(timers') <= 1
       /\ ValuesChanged => (Len(timers') = 1 /\ submitted' = submitted)
       /\ (/\ TimerFires
           /\ burst
           /\ isValid(formikValues)
           /\ ~equal(formikValues, formikInitialValues)
           /\ LastSubmitted # <<formikValues>>)
             => Len(submitted') = Len(submitted) + 1]_vars

\* C12: a submission is issued only if the draft differs from the values
\* last submitted, differs from the initial values and is valid.
C12_SubmitsOnlyNewValidDraft ==
    [][submitted' # submitted
         => /\ LastSubmitted # <<formikValues>>
            /\ ~equal(formikValues, formikInitialValues)
            /\ isValid(formikValues)]_vars

\* C12, amended: a submission is issued only by a handler that fires, and
\* only if the draft differs from the values the listener saw before the last
\* change, differs from the initial values and is valid, by the validation
\* and by formik.isValid; a handler that fires when one of these fails
\* submits nothing.
C12_SubmitsOnlyChangedValidDraft ==
    [][submitted' # submitted
         => /\ TimerFires
            /\ burst
            /\ ~equal(formikValues, previousValues)
            /\ ~equal(formikValues, formikInitialValues)
            /\ isValid(formikValues)
            /\ formikIsValid
            /\ submitted' = Append(submitted, formikValues)]_vars

\* a submission was issued, and a handler is pending for a later draft that
\* equals the initial values
C12_Witness ==
    /\ Len(submitted) = 1
    /\ timers # <<>>
    /\ equal(formikValues, formikInitialValues)
    /\ burst

----------------------------------------------------------------------------
(* Properties of ReferenceDialog, checked under SpecReference *)

\* the ids without every occurrence of id, in their order
RECURSIVE WithoutId(_, _)
WithoutId(ids, id) ==
    IF ids = <<>> THEN <<>>
    ELSE IF Head(ids) = id THEN WithoutId(Tail(ids), id)
    ELSE <<Head(ids)>> \o WithoutId(Tail(ids), id)

\* a row click that is handled as a toggle of the selection
ClickToggles ==
    /\ dialogOpen'
    /\ singleCalls' = singleCalls
    /\ \E entity \in RowEntities :
          /\ IF entity.id \in SeqToSet(EntityIds(dialogSelectedEntities))
             THEN /\ EntityIds(dialogSelectedEntities')
                       = WithoutId(EntityIds(dialogSelectedEntities), entity.id)
                  /\ \A i \in 1..Len(dialogSelectedEntities') :
                        \E j \in 1..Len(dialogSelectedEntities) :
                           dialogSelectedEntities'[i] = dialogSelectedEntities[j]
             ELSE dialogSelectedEntities' = dialogSelectedEntities \o <<entity>>
    /\ multipleCalls' = IF "multiple" \in callbacks
                        THEN multipleCalls \o <<dialogSelectedEntities'>>
                        ELSE multipleCalls

C14_MultiClickToggles ==
    [][(EntityClick /\ multiselect)
          => /\ ClickToggles
             /\ (/\ EntityIds(dialogSelectedEntities) = <<"e1", "e2">>
                 /\ EntityIds(dialogSelectedEntities') # <<"e2">>
                 /\ "multiple" \in callbacks)
                   => /\ EntityIds(dialogSelectedEntities') = <<"e1">>
                      /\ EntityIds(multipleCalls'[Len(multipleCalls')]) = <<"e1">>]_vars

\* opened with [e1, e2] selected, e2 was toggled off and then on again
C14_Witness ==
    /\ multiselect
    /\ selectedEntityIds = <<<<"e1", "e2">>>>
    /\ Len(multipleCalls) = 2
    /\ EntityIds(multipleCalls[1]) = <<"e1">>
    /\ EntityIds(multipleCalls[2]) = <<"e1", "e2">>
    /\ singleCalls = <<>>

C16_InitialSelectionIsResolved ==
    [][(~dialogReady /\ dialogReady')
          => /\ selectedEntityIds # <<>>
             /\ \A i \in 1..Len(fetches') : fetches'[i] = "resolved"
             /\ EntityIds(dialogSelectedEntities')
                   = SelectSeq(selectedEntityIds[1], LAMBDA id : id \in StoredIds)
             /\ \A i \in 1..Len(dialogSelectedEntities') :
                   dialogSelectedEntities'[i].values
                       = StoredValues(dialogSelectedEntities'[i].id)]_vars

\* opened with an id that is not found between two that are, the dialog is
\* ready and nothing was clicked yet
C16_Witness ==
    /\ dialogOpen
    /\ dialogReady
    /\ selectedEntityIds = <<<<"e2", "gone", "e1">>>>
    /\ EntityIds(dialogSelectedEntities) = <<"e2", "e1">>
    /\ singleCalls = <<>>
    /\ multipleCalls = <<>>

----------------------------------------------------------------------------
(* Properties of EntityCollectionTable, checked under SpecTable and, those of *)
(* the cell edits, under SpecCells                                         *)

\* C17: the multiple delete button of the table is enabled if and only if the
\* selection is not empty and canDelete passes for every selected entity.
C17_BulkDeleteEnabledIffAllDeletable ==
    multipleDeleteButtonEnabled <=>
        /\ tableSelectedEntities # <<>>
        /\ \A i \in 1..Len(tableSelectedEntities) :
              tableSelectedEntities[i].id \in deletableIds

\* two entities are selected, one that may be deleted and one that may not
C17_Witness ==
    /\ Len(tableSelectedEntities) = 2
    /\ tableSelectedEntities[1].id \in deletableIds
    /\ tableSelectedEntities[2].id \notin deletableIds
    /\ ~multipleDeleteButtonEnabled

\* C18: a save request is sent for a cell of an entity only when the
\* collection has inlineEditing enabled and canEdit passes for the entity.
C18_SaveOnlyForEditableCell ==
    [][saveRequests' # saveRequests =>
          /\ Len(saveRequests') = Len(saveRequests) + 1
          /\ SubSeq(saveRequests', 1, Len(saveRequests)) = saveRequests
          /\ inlineEditing
          /\ saveRequests'[Len(saveRequests')].entityId \in editableIds]_vars

\* a save request was sent in a table that has an entity canEdit fails for
C18_Witness ==
    /\ saveRequests # <<>>
    /\ editableIds # StoredIds

\* C19: the save request of a committed cell edit carries the id of the
\* entity, the status "existing", and the values of the entity with the
\* edited field alone replaced by the committed value.
C19_SaveCarriesMergedValues ==
    [][saveRequests' # saveRequests =>
          /\ Len(cellEdits') = Len(saveRequests')
          /\ LET request == saveRequests'[Len(saveRequests')]
                 edit == cellEdits'[Len(cellEdits')]
             IN /\ request.entityId = edit.entity.id
                /\ request.status = "existing"
                /\ DOMAIN request.values = DOMAIN edit.entity.values
                /\ request.values[edit.name] = edit.value
                /\ \A n \in DOMAIN edit.entity.values \ {edit.name} :
                      request.values[n] = edit.entity.values[n]]_vars

\* the price of e2 was edited, and the request carries its title as it was
C19_Witness ==
    /\ saveRequests # <<>>
    /\ saveRequests[1].entityId = "e2"
    /\ cellEdits[1].name = "price"
    /\ saveRequests[1].values.price = 2
    /\ saveRequests[1].values.title = "e2"

\* C21: when a delete, single or multiple, completes, no entity that was
\* deleted is in the selection of the table.
C21_DeletedLeaveSelection ==
    [][deletedIds' # deletedIds =>
          \A i \in 1..Len(tableSelectedEntities') :
              tableSelectedEntities'[i].id \notin deletedIds' \ deletedIds]_vars

\* a single delete of a selected entity has completed, and the entity was
\* selected through another object than the one of the row that was deleted
C21_Witness ==
    /\ lastDelete # <<>>
    /\ ~lastDelete[1].multiple
    /\ lastDelete[1].succeeded # {}
    /\ \E i \in 1..Len(lastDelete[1].selectedBefore) :
          /\ lastDelete[1].selectedBefore[i].id = lastDelete[1].entities[1].id
          /\ lastDelete[1].selectedBefore[i] # lastDelete[1].entities[1]

HasDistinctIds(entities) ==
    \A i, j \in 1..Len(entities) :
        entities[i].id = entities[j].id => i = j

\* C20: neither the selection of the table nor the selection of the reference
\* dialog holds two entities with the same id.
C20_SelectionsHoldDistinctIds ==
    /\ HasDistinctIds(tableSelectedEntities)
    /\ HasDistinctIds(dialogSelectedEntities)

----------------------------------------------------------------------------
(* Properties of the add-property sub-form, checked under SpecTree *)

\* C22: confirming the add-property sub-form with key k and property p puts p
\* under k in the property mapping, at its end when k is new, appends k at the
\* end of propertiesOrder, leaves every other property and the order of the
\* existing keys as they were, and closes the sub-dialog.
C22_CreatedPropertyIsAppended ==
    [][newPropertyDialogOpen /\ values' # values =>
          \E e \in NewEntries :
              LET before == values.properties
                  after == values'.properties
              IN /\ HasKey(after, e.key)
                 /\ GetKey(after, e.key) = e.value
                 /\ ObjectKeys(after) =
                        IF HasKey(before, e.key) THEN ObjectKeys(before)
                        ELSE Append(ObjectKeys(before), e.key)
                 /\ \A i \in 1..Len(before) :
                        before[i].key # e.key => after[i] = before[i]
                 /\ values'.propertiesOrder =
                        Append(OrderOrEmpty(values.propertiesOrder), e.key)
                 /\ values'.id = values.id
                 /\ values'.name = values.name
                 /\ newPropertyDialogOpen' = FALSE]_vars

\* a second property was added after a first one, and the sub-dialog is closed
C22_Witness ==
    /\ ~newPropertyDialogOpen
    /\ ObjectKeys(values.properties) = <<"a", "n">>
    /\ values.propertiesOrder = <<"a", "n">>

\* C29: propertiesOrder lists each key at most once.
C29_OrderListsKeyOnce ==
    LET order == OrderOrEmpty(values.propertiesOrder)
    IN  \A i, j \in 1..Len(order) : order[i] = order[j] => i = j

----------------------------------------------------------------------------
(* Properties of propertyEditForm.onPropertyChanged, checked under          *)
(* SpecPropertyForm                                                        *)

\* the properties with the property at the dotted path id replaced
RECURSIVE replacedAt(_, _, _)
replacedAt(properties, id, property) ==
    SetKey(properties, id[1],
           IF Len(id) = 1 THEN property
           ELSE LET parent == GetKey(properties, id[1])
                IN  [parent EXCEPT
                       !.properties = replacedAt(parent.properties, Tail(id), property)])

----------------------------------------------------------------------------
(* Properties of the lookup of the schema, checked under SpecLookup *)

\* C24: once the registry is initialised, an editor opened for an id the
\* registry cannot resolve shows the error view.
C24_UnresolvedSchemaShowsError ==
    (/\ registryInitialised
     /\ schemaId # <<>>
     /\ findSchema(schemaId[1]) = <<>>) => SchemaEditorView = "error"

----------------------------------------------------------------------------
(* Further properties of ReferenceDialog, checked under SpecReference *)

\* C25: in multi-select mode the selection the dialog holds equals the
\* selection last reported through onMultipleEntitiesSelected; after Clear it
\* is empty.
C25_SelectionIsLastReported ==
    (multiselect /\ dialogReady /\ multipleCalls # <<>>) =>
        dialogSelectedEntities = multipleCalls[Len(multipleCalls)]

SomePending(states) == \E i \in 1..Len(states) : states[i] = "pending"

\* C26: a dialog that is open and was given initial ids is ready once every
\* fetch has settled, whether it resolved or was rejected.
C26_ReadyOnceFetchesSettled ==
    (dialogOpen /\ selectedEntityIds # <<>> /\ ~SomePending(fetches))
        => dialogReady

\* C27: while a fetch of the initial ids is outstanding the selection is
\* unset; it is set in one step, when the last fetch has resolved, to the
\* whole result, and no fetch settles after that.
C27_OneReadinessTransition ==
    [][/\ SomePending(fetches') =>
             ~dialogReady' /\ dialogSelectedEntities' = <<>>
       /\ (~dialogReady /\ dialogReady') =>
             /\ allResolved(fetches')
             /\ dialogSelectedEntities' = fetchedEntities(selectedEntityIds[1])
       /\ fetches' # fetches => ~dialogReady]_vars

\* the fetches of the second and the third id have resolved before the one of
\* the first, and the selection is unset
C27_Witness ==
    /\ dialogOpen
    /\ selectedEntityIds = <<<<"e2", "gone", "e1">>>>
    /\ fetches = <<"pending", "resolved", "resolved">>
    /\ ~dialogReady

----------------------------------------------------------------------------
(* Properties of a ReferenceDialog whose selectedEntityIds change, checked  *)
(* under SpecReferenceProps                                                *)

\* C28: a fetch that settles after the dialog was unmounted, or after its
\* effect was cleaned up because the ids changed, leaves the selection state
\* as it is; a fetch that sets it belongs to the last effect of a mounted
\* dialog, and sets the result of the ids of that effect.
C28_StaleBatchNeverApplied ==
    [][/\ (staleBatch # <<>> /\ staleBatch' # staleBatch) =>
             UNCHANGED <<dialogReady, dialogSelectedEntities>>
       /\ (fetches' # fetches /\ ~dialogOpen) =>
             UNCHANGED <<dialogReady, dialogSelectedEntities>>
       /\ (/\ selectedEntityIds' = selectedEntityIds
           /\ <<dialogReady, dialogSelectedEntities>>'
                 # <<dialogReady, dialogSelectedEntities>>
           /\ singleCalls' = singleCalls
           /\ multipleCalls' = multipleCalls
           /\ ~dialogReady) =>
             /\ dialogOpen
             /\ allResolved(fetches')
             /\ dialogSelectedEntities' = fetchedEntities(selectedEntityIds[1])]_vars

\* the fetches of a superseded effect have all resolved, and the dialog holds
\* the result of the ids it was rendered with last, which is another
C28_Witness ==
    /\ dialogOpen
    /\ dialogReady
    /\ staleBatch # <<>>
    /\ allResolved(staleBatch[1].fetches)
    /\ selectedEntityIds # <<>>
    /\ dialogSelectedEntities = fetchedEntities(selectedEntityIds[1])
    /\ fetchedEntities(staleBatch[1].ids) # dialogSelectedEntities

----------------------------------------------------------------------------
(* Liveness of SubmitListener, checked under SpecListenerLive *)

\* the drafts the user can leave the form with that are valid and differ
\* from the initial values
SubmittableDrafts ==
    {v \in {[ListenerDraft(name) EXCEPT !.id = id] :
                name \in Names, id \in ManualIds \cup {toSnakeCase(Product)}} :
        isValid(v) /\ ~equal(v, ListenerDraft(Product))}

\* C30: when the draft stops changing at values that are valid and differ
\* from the initial values, these values are eventually submitted.
C30_StableDraftIsSubmitted ==
    \A v \in SubmittableDrafts :
        <>[](formikValues = v) => <>(LastSubmitted = <<v>>)

\* the save requests i < j are two edits of different fields of one row,
\* committed before the entity of the row was refreshed, and are the only
\* requests for the entity
UnrefreshedEdits(i, j) ==
    /\ i < j
    /\ cellEdits[i].entity.id = cellEdits[j].entity.id
    /\ cellEdits[i].name # cellEdits[j].name
    /\ cellEdits[i].entity.values = cellEdits[j].entity.values
    /\ \A k \in 1..Len(cellEdits) :
          cellEdits[k].entity.id = cellEdits[i].entity.id => k \in {i, j}

\* C31 as stated: when two edits of different fields of one row, committed
\* before the entity of the row is refreshed, are both saved, the data source
\* holds both new values.
C31_BothNewValuesStored ==
    \A i, j \in 1..Len(saveRequests) :
        (/\ UnrefreshedEdits(i, j)
         /\ saveStates[i] = "saved"
         /\ saveStates[j] = "saved")
        => /\ dataSourceValues[cellEdits[i].entity.id][cellEdits[i].name]
                  = cellEdits[i].value
           /\ dataSourceValues[cellEdits[j].entity.id][cellEdits[j].name]
                  = cellEdits[j].value

\* C31: a save request carries the values the row presents, the edited field
\* alone replaced, and a save that succeeds leaves the data source holding
\* exactly the values of its request, the other fields as the row presented
\* them included: the request that settles last wins.
C31_LastSavedRequestWins ==
    [][/\ saveRequests' # saveRequests =>
             LET edit == cellEdits'[Len(cellEdits')]
             IN saveRequests'[Len(saveRequests')].values =
                    [rowValues[edit.entity.id] EXCEPT ![edit.name] = edit.value]
       /\ \A i \in 1..Len(saveStates) :
             (saveStates[i] = "pending" /\ saveStates'[i] = "saved") =>
                 dataSourceValues' =
                     [dataSourceValues EXCEPT ![saveRequests[i].entityId] =
                         saveRequests[i].values]]_vars

\* two edits of different fields of one row, committed before a refresh, are
\* both saved, and the data source holds the old value of the field whose
\* request settled first
C31_Witness ==
    \E i, j \in 1..Len(saveRequests) :
        /\ UnrefreshedEdits(i, j)
        /\ saveStates[i] = "saved"
        /\ saveStates[j] = "saved"
        /\ \E k \in {i, j} :
              /\ dataSourceValues[cellEdits[k].entity.id][cellEdits[k].name]
                     # cellEdits[k].value
              /\ dataSourceValues[cellEdits[k].entity.id][cellEdits[k].name]
                     = StoredValues(cellEdits[k].entity.id)[cellEdits[k].name]

\* C35: a save request settles once, from pending to saved or to error, and
\* the cell it was sent for then shows that outcome; a failure changes
\* neither the data source, the edits, the rows nor the requests sent (no
\* retry); the state of a cell changes only when a request of that cell
\* settles.
C35_OneOutcomePerCell ==
    [][/\ \A i \in 1..Len(saveStates) :
             saveStates'[i] # saveStates[i] =>
                 /\ saveStates[i] = "pending"
                 /\ saveStates'[i] \in {"saved", "error"}
                 /\ cellStates'[CellOf(i)] = saveStates'[i]
                 /\ \A cell \in Cells \ {CellOf(i)} :
                       cellStates'[cell] = cellStates[cell]
                 /\ saveStates'[i] = "error" =>
                       /\ dataSourceValues' = dataSourceValues
                       /\ rowValues' = rowValues
                       /\ cellEdits' = cellEdits
                       /\ saveRequests' = saveRequests
       /\ cellStates' # cellStates =>
             \E i \in 1..Len(saveStates) : saveStates'[i] # saveStates[i]]_vars

\* the request of one cell failed and the request of another cell of the
\* same row was saved: each cell shows its own outcome, and the data source
\* does not hold the value whose save failed
C35_Witness ==
    \E i, j \in 1..Len(saveRequests) :
        /\ CellOf(i) # CellOf(j)
        /\ CellOf(i)[1] = CellOf(j)[1]
        /\ saveStates[i] = "error"
        /\ saveStates[j] = "saved"
        /\ cellStates[CellOf(i)] = "error"
        /\ cellStates[CellOf(j)] = "saved"
        /\ dataSourceValues[CellOf(i)[1]][cellEdits[i].name] # cellEdits[i].value

\* C32: while a move is pending the tree of the draft does not change, and
\* the pending move designates an item of the tree and satisfies isValidDrag
\* on it, so the move applied on accepting is the move validated at the drop.
C32_AcceptedMoveIsValidatedMove ==
    [][pendingMove # <<>> =>
          /\ PositionsInTree(tree, pendingMove[1], pendingMove[2])
          /\ isValidDrag(tree, pendingMove[1], pendingMove[2])
          /\ pendingMove' = pendingMove => tree' = tree]_vars

\* every child of an item is an item, no id is listed twice in a child list
\* or in the child lists of two items, and the root exists and holds no
\* property
SingleParentTree(t) ==
    /\ t.rootId = rootId
    /\ rootId \in DOMAIN t.items
    /\ t.items[rootId].data.property = NoProperty
    /\ \A id \in DOMAIN t.items :
          LET children == t.items[id].children
          IN  /\ \A i \in 1..Len(children) : children[i] \in DOMAIN t.items
              /\ \A i, j \in 1..Len(children) : children[i] = children[j] => i = j
              /\ \A other \in DOMAIN t.items \ {id} :
                    SeqToSet(children) \cap SeqToSet(t.items[other].children) = {}

\* C33: the tree derived from the draft is a single-parent tree whose root
\* exists and holds no property, and so is the tree every valid move of it
\* yields.
C33_TreeIsSingleParent ==
    /\ SingleParentTree(tree)
    /\ \A source \in SourcePositions(tree) :
          \A destination \in DestinationPositions(tree, source) :
              isValidDrag(tree, source, destination) =>
                  SingleParentTree(moveItemOnTree(tree, source, destination))

\* a property was moved out of a map to the root, past a confirmation, and
\* the tree of the draft has it under the root alone
C33_Witness ==
    /\ values = [ProductSchema EXCEPT
                   !.properties = treeToProperties(moveItemOnTree(
                        TreeOf(ProductSchema), Position(<<"m">>, 0),
                        Position(rootId, 0)))[1],
                   !.propertiesOrder = <<"a", "m", "f">>]
    /\ tree.items[rootId].children = <<<<"a">>, <<"m">>, <<"f">>>>
    /\ tree.items[<<"m">>].children = <<>>

\* C34: isValidDrag rejects every move to a destination without an index,
\* whichever item is dragged and whichever item, the root and the maps
\* included, is the destination parent.
C34_NoIndexIsRejected ==
    \A source \in SourcePositions(tree) :
        \A parentId \in DOMAIN tree.items :
            ~isValidDrag(tree, source, Position(parentId, NoIndex))

\* in a draft whose properties were changed, an item that is no builder can be
\* dropped at index 0 of the root and of a map, and is rejected when dropped
\* onto them without an index
C34_Witness ==
    /\ values.properties # initialValues.properties
    /\ \E source \in SourcePositions(tree) :
           \E parentId \in DOMAIN tree.items \ {rootId} :
               /\ Position(parentId, NoIndex) \in DestinationPositions(tree, source)
               /\ Position(rootId, NoIndex) \in DestinationPositions(tree, source)
               /\ IsMap(tree.items[parentId].data.property)
               /\ isValidDrag(tree, source, Position(parentId, 0))
               /\ isValidDrag(tree, source, Position(rootId, 0))
               /\ ~isValidDrag(tree, source, Position(parentId, NoIndex))
               /\ ~isValidDrag(tree, source, Position(rootId, NoIndex))

\* C36: a row action acts only when its own permission check passes for the
\* entity of its row: a copy is opened only when canCreate passes, an edit
\* only when canEdit passes for the entity, and a single delete is asked for
\* only when canDelete passes for the entity.
C36_RowActionNeedsItsPermission ==
    [][/\ sideEntity' # sideEntity =>
             LET opened == sideEntity'[1]
             IN  /\ opened.copy => creatable
                 /\ ~opened.copy => opened.entityId \in editableIds
       /\ (deleteEntityClicked = <<>> /\ deleteEntityClicked' # <<>>
              /\ ~deleteEntityClicked'[1].multiple) =>
             deleteEntityClicked'[1].entities[1].id \in deletableIds]_vars

\* the entities of a selection that are not among the deleted ids, in order
NotDeleted(entities, deleted) ==
    SelectSeq(entities, LAMBDA e : e.id \notin deleted)

\* C37: when a delete completes, the selected entities that were not deleted,
\* those that were not part of the delete and those whose delete failed, are
\* all still selected, in the order they had, and nothing else is selected.
C37_OnlyDeletedLeaveSelection ==
    [][lastDelete' # lastDelete =>
          /\ NotDeleted(tableSelectedEntities', lastDelete'[1].succeeded)
                 = NotDeleted(tableSelectedEntities, lastDelete'[1].succeeded)
          /\ Len(tableSelectedEntities') <= Len(tableSelectedEntities)]_vars

\* C38: a saveSchema call is made only while the draft is dirty, no
\* submission is pending and no earlier saveSchema call is unsettled; a call
\* in flight keeps the submission pending.
C38_OneSaveInFlight ==
    [][/\ saveCalls' # saveCalls =>
             /\ saveCalls' = saveCalls + 1
             /\ dirty
             /\ ~isSubmitting
             /\ saveInFlight = <<>>
             /\ saveInFlight' # <<>>
       /\ saveInFlight' # <<>> => isSubmitting']_vars

\* a second saveSchema call is in flight, made after the first one settled
C38_Witness ==
    /\ saveCalls = 2
    /\ saveInFlight # <<>>
    /\ isSubmitting

\* C39: over any sequence of getDownloadURL calls firebase/storage is asked
\* for the download URL of a path at most once, and every call for a path
\* returns what the first call for the path returned.
C39_OneLookupPerPath ==
    /\ \A path \in StoragePaths : lookups[path] <= 1
    /\ lastReturned # <<>> =>
          lastReturned[1].promise = firstReturned[lastReturned[1].path][1]

=============================================================================
